---------------------------- MODULE Spec2Model ----------------------------
(***************************************************************************)
(* A model of the scripted-video pipeline of                               *)
(* services/v1/video/scripted_video.py: script decomposition, the tiered   *)
(* media resolver with its process-wide used_videos set, the bounded       *)
(* parallel scene rendering with retries, concatenation, the optional      *)
(* caption overlay and the cleanup of the files a run creates.             *)
(*                                                                         *)
(* Text is modelled as sequences of one-character strings, so that         *)
(* str.split, str.strip and len() are computed as Python computes them.    *)
(***************************************************************************)
EXTENDS Integers, Sequences, FiniteSets, TLC

(***************************************************************************)
(* Bounds of the model.                                                    *)
(***************************************************************************)
\* Longest script enumerated by the decomposition specification.
MaxScriptLen == 6
\* Largest number of scenes of a run of the scheduling specification.
MaxScenes == 4
\* Scene counts for which the size of the limiter is computed.
MaxSceneCount == 40
\* Number of runs that may be in flight at once.
NumRuns == 2
\* Number of scenes of the long script of the scheduling specification.
LongScriptScenes == 27
FailingScenes == 7
MaxClips == 2
MaxDuration == 12
NumRequests == 3
MAX_QUEUE_LENGTH == 1

Runs == 1..NumRuns

None == "None"

(***************************************************************************)
(* Python string helpers.                                                  *)
(***************************************************************************)
NL == "\n"
SP == " "
TAB == "\t"

\* str.strip() and str.split() treat these characters as whitespace.
Whitespace == {NL, SP, TAB}

\* str.lower() on one character.
LowerChar(c) ==
    CASE c = "D" -> "d"
      [] c = "R" -> "r"
      [] OTHER -> c

\* str.lower()
Lower(s) == [k \in 1..Len(s) |-> LowerChar(s[k])]

RECURSIVE LStrip(_)
LStrip(s) ==
    IF s = <<>> THEN <<>>
    ELSE IF Head(s) \in Whitespace THEN LStrip(Tail(s)) ELSE s

RECURSIVE RStrip(_)
RStrip(s) ==
    IF s = <<>> THEN <<>>
    ELSE IF s[Len(s)] \in Whitespace THEN RStrip(SubSeq(s, 1, Len(s) - 1)) ELSE s

\* str.strip()
Strip(s) == RStrip(LStrip(s))

\* str.split(sep) for a two-character separator <<a, b>>: the pieces between
\* the non-overlapping occurrences of the separator found left to right,
\* empty pieces included.
RECURSIVE SplitPair(_, _, _, _)
SplitPair(s, a, b, cur) ==
    IF s = <<>> THEN <<cur>>
    ELSE IF Len(s) >= 2 /\ s[1] = a /\ s[2] = b
         THEN <<cur>> \o SplitPair(SubSeq(s, 3, Len(s)), a, b, <<>>)
         ELSE SplitPair(Tail(s), a, b, Append(cur, Head(s)))

\* str.split() without argument: the maximal runs of non-whitespace.
RECURSIVE SplitWords(_, _)
SplitWords(s, cur) ==
    IF s = <<>> THEN (IF cur = <<>> THEN <<>> ELSE <<cur>>)
    ELSE IF Head(s) \in Whitespace
         THEN (IF cur = <<>> THEN <<>> ELSE <<cur>>) \o SplitWords(Tail(s), <<>>)
         ELSE SplitWords(Tail(s), Append(cur, Head(s)))

\* sep.join(parts)
RECURSIVE Join(_, _)
Join(sep, parts) ==
    IF parts = <<>> THEN <<>>
    ELSE IF Len(parts) = 1 THEN parts[1]
    ELSE parts[1] \o sep \o Join(sep, Tail(parts))

Range(f) == {f[x] : x \in DOMAIN f}

Min(a, b) == IF a < b THEN a ELSE b
Max(a, b) == IF a > b THEN a ELSE b

(***************************************************************************)
(* extract_scenes                                                          *)
(***************************************************************************)
NonEmpty(s) == s /= <<>>

\* A faulty extract_scenes: the pieces are kept untrimmed.
ScenesOfScriptUntrimmed(script) ==
    SelectSeq(SplitPair(script, NL, NL, <<>>), LAMBDA p : Strip(p) /= <<>>)

\* scenes = [scene.strip() for scene in script.split("\n\n") if scene.strip()]
\* followed by the filter of the empty scenes.
ScenesOfScript(script) ==
    LET pieces == SplitPair(script, NL, NL, <<>>)
        kept == SelectSeq(pieces, LAMBDA p : Strip(p) /= <<>>)
        stripped == [k \in 1..Len(kept) |-> Strip(kept[k])]
    IN SelectSeq(stripped, NonEmpty)

\* A faulty extract_scenes: it never raises.
ExtractScenesNeverRaises(script) == FALSE

\* extract_scenes raises ValueError when no scene is left.
ExtractScenesRaises(script) == ScenesOfScript(script) = <<>>

\* The value extract_scenes returns when it does not raise.
ExtractScenes(script) == ScenesOfScript(script)

(***************************************************************************)
(* Keywords of a scene.  Words are the letter sequences below; the part of *)
(* speech that nltk.pos_tag gives a word is a fixed attribute of the word. *)
(***************************************************************************)
Dog == <<"d", "o", "g">>
Park == <<"p", "a", "r", "k">>
The == <<"t", "h", "e">>

\* common_words of get_scene_keywords, as far as the words above go.
CommonWords == {The}

\* The words pos_tag tags NN* or VB*.
NounOrVerb(word) == word \in {Dog, Park}

\* words = scene.lower().split()
\* keywords = [word for word in words if word not in common_words and len(word) > 3]
SceneKeywordList(scene) ==
    SelectSeq(SplitWords(Lower(scene), <<>>),
              LAMBDA w : w \notin CommonWords /\ Len(w) > 3)

\* The orders in which a list may enumerate the elements of a set.
RECURSIVE Orderings(_)
Orderings(S) ==
    IF S = {} THEN {<<>>}
    ELSE UNION {{<<x>> \o rest : rest \in Orderings(S \ {x})} : x \in S}

\* get_scene_keywords: list(set(keywords[:5])); the order of a list made from
\* a set is not fixed, so this is the set of lists the call may return.
GetSceneKeywords(scene) ==
    LET kw == SceneKeywordList(scene)
    IN Orderings(Range(SubSeq(kw, 1, Min(5, Len(kw)))))

\* generate_alternative_keywords: the pairs of neighbouring nouns and verbs,
\* the nouns and verbs themselves, and the lowercased query unless it is one
\* of them already.
GenerateAlternativeKeywords(query) ==
    LET words == SplitWords(Lower(query), <<>>)
        keywords == SelectSeq(words, NounOrVerb)
        pairs == IF Len(keywords) > 1
                 THEN [k \in 1..(Len(keywords) - 1) |->
                          keywords[k] \o <<SP>> \o keywords[k + 1]]
                 ELSE <<>>
        alternatives == pairs \o keywords
    IN IF Lower(query) \in Range(alternatives)
       THEN alternatives
       ELSE Append(alternatives, Lower(query))

\* all_keywords of process_scene for one order of the keyword set:
\* [" ".join(keywords)] followed by alt_keywords[:3].
AllKeywords(scene, keywords) ==
    LET alt == GenerateAlternativeKeywords(scene)
    IN <<Join(<<SP>>, keywords)>> \o SubSeq(alt, 1, Min(3, Len(alt)))

\* The queries one call fetch_stock_media(query) sends, in order: the query
\* itself and then each alternative; each goes to Pexels and then to Pixabay.
QueriesOf(query) == <<query>> \o GenerateAlternativeKeywords(query)

(***************************************************************************)
(* The limiter, the custom media map and the failure policy of             *)
(* process_all_scenes.                                                     *)
(***************************************************************************)
\* A faulty limiter size: max() where the code takes min().
MaxWorkersAtLeast(n) == Max(3, 8 \div Max(1, n \div 3))

\* max_workers = min(3, 8 // max(1, len(scenes) // 3))
MaxWorkers(n) == Min(3, 8 \div Max(1, n \div 3))

\* A faulty custom_urls: the indices out of range are kept.
CustomUrlsUnchecked(custom_media, n) ==
    LET keys == {custom_media[k].scene_index : k \in 1..Len(custom_media)}
        last(idx) == CHOOSE k \in 1..Len(custom_media) :
                        /\ custom_media[k].scene_index = idx
                        /\ \A j \in (k + 1)..Len(custom_media) :
                              custom_media[j].scene_index /= idx
    IN [idx \in keys |-> custom_media[last(idx)].media_url]

\* custom_urls: the dict comprehension keeps the last entry of an index, and
\* the indices out of range are deleted.
CustomUrls(custom_media, n) ==
    LET keys == {custom_media[k].scene_index : k \in 1..Len(custom_media)}
        last(idx) == CHOOSE k \in 1..Len(custom_media) :
                        /\ custom_media[k].scene_index = idx
                        /\ \A j \in (k + 1)..Len(custom_media) :
                              custom_media[j].scene_index /= idx
    IN [idx \in {x \in keys : x >= 0 /\ x < n} |-> custom_media[last(idx)].media_url]

\* A faulty policy: the run fails when at least half of the scenes failed.
TooManyFailedAtHalf(failed, n) == 2 * failed >= n

\* len(scene_errors) > len(scenes) / 2
TooManyFailed(failed, n) == 2 * failed > n

(***************************************************************************)
(* The state.                                                              *)
(***************************************************************************)
VARIABLES
    job,          \* per run: the arguments of process_scripted_video_v1
    world,        \* the stock catalogues and the local media files
    stage,        \* per run: how far process_scripted_video_v1 has come
    scenes,       \* per run: the scenes extract_scenes returned
    task,         \* per run and scene index: the task process_scene_with_retries
    scene_errors, \* per run and scene index: the records appended to scene_errors
    scene_paths,  \* per run: the list process_all_scenes returned
    used_videos,  \* the module-level set used_videos
    disk,         \* the files on disk and what each holds
    temp_files,   \* per run: temp_files of process_scripted_video_v1
    final_path,   \* per run: final_path of process_scripted_video_v1
    result,       \* per run: the returned path, or the exception raised
    selected,     \* per run: the stock URLs the run added to used_videos
    searched,     \* per run: the scenes that queried a stock provider
    dedup_log,    \* per run: what the reuse fallback of the resolver did
    overtaken,    \* per run: a scene finished before a scene of lower index
    fetch,        \* one call of fetch_stock_media seen with its HTTP requests
    raw_clip,     \* one raw clip of process_scene seen through its validation
    concat,       \* one call of concatenate_videos
    captions,     \* one call of generate_srt_from_script
    task_queue,   \* app.py: the job ids in task_queue, oldest first
    request,      \* app.py: request thread -> the request it serves and its job
    worker        \* app.py: the thread that runs process_queue

\* The variables of the parts that are looked at on their own.
other_vars == <<fetch, raw_clip, concat, captions, task_queue, request, worker>>

vars == <<job, world, stage, scenes, task, scene_errors, scene_paths,
          used_videos, disk, temp_files, final_path, result, selected,
          searched, dedup_log, overtaken, other_vars>>

\* No call of fetch_stock_media is looked at.
NoFetch ==
    [pc |-> "idle", query |-> <<>>, call |-> 0, attempt |-> 0, wait |-> 0,
     outcome |-> "none", failed_calls |-> {}, results |-> <<>>,
     pixabay_results |-> <<>>, returned |-> "None"]

\* No raw clip is looked at.
NoRawClip ==
    [pc |-> "idle", src |-> "None", raw |-> "none", replaced |-> 0, ok |-> FALSE,
     cropped |-> "none"]

\* No call of concatenate_videos is looked at.
NoConcat ==
    [pc |-> "idle", inputs |-> <<>>, need_standardization |-> FALSE, k |-> 0,
     standardized_paths |-> <<>>, listed |-> <<>>, truncated |-> FALSE,
     error |-> "None"]

\* No call of generate_srt_from_script is looked at.
NoCaptions == [pc |-> "idle", script |-> <<>>, total_duration |-> 0, entries |-> <<>>]

OtherInit ==
    /\ fetch = NoFetch
    /\ raw_clip = NoRawClip
    /\ concat = NoConcat
    /\ captions = NoCaptions
    /\ task_queue = <<>>
    /\ request = [t \in 1..NumRequests |->
                    [pc |-> "idle", webhook_url |-> "absent", task_func |-> "none",
                     code |-> 0, job_status |-> "none", reported |-> FALSE]]
    /\ worker = [pc |-> "get", job |-> 0]

pipeline_vars == <<job, world, stage, scenes, task, scene_errors, scene_paths,
                   used_videos, disk, temp_files, final_path, result, selected,
                   searched, dedup_log, overtaken>>

\* max_attempts of process_scene_with_retries
MaxAttempts == 3
\* max_download_attempts of process_scene
MaxDownloadAttempts == 3

\* DEFAULT_PLACEHOLDER_VIDEO, an absolute local path
DefaultPlaceholder == "/default_placeholder.mp4"

\* A file of run r: kind, scene index and attempt (the uid of the attempt).
File(r, kind, i, a) == <<r, kind, i, a>>

\* The value None of a variable that holds a path.
NoFile == <<0, "none", 0, 0>>

\* os.path.exists
Exists(d, f) == f \in DOMAIN d

\* validate_video_file: the file exists, is not empty and decodes.
ValidateVideoFile(d, f) == Exists(d, f) /\ d[f] = "valid"

\* Writing file f with content c.
WriteFile(d, f, c) == [g \in DOMAIN d \cup {f} |-> IF g = f THEN c ELSE d[g]]

\* os.remove of each file of fs that exists.
RemoveFiles(d, fs) == [g \in DOMAIN d \ fs |-> d[g]]

\* The files run r created that are on disk.
FilesOf(d, r) == {f \in DOMAIN d : f[1] = r}

\* os.path.exists(url) and os.path.isabs(url)
IsLocalFile(url) == url \in DOMAIN world.local

\* fetch_from_pexels and fetch_from_pixabay: the first link of each result.
Pexels(query) == IF query \in DOMAIN world.pexels THEN world.pexels[query] ELSE <<>>
Pixabay(query) == IF query \in DOMAIN world.pixabay THEN world.pixabay[query] ELSE <<>>

NumScenes(r) == Len(scenes[r])
SceneIndices(r) == 0..(NumScenes(r) - 1)

\* The scene text of index i (Python indices start at 0).
SceneText(r, i) == scenes[r][i + 1]

\* The tasks that hold the semaphore.
Holding(r) == {i \in SceneIndices(r) : task[r][i].pc \notin {"sem", "ok", "failed"}}

\* The tasks inside a call of process_scene.
Executing(r) ==
    {i \in SceneIndices(r) : task[r][i].pc \in {"tts", "search", "download", "dlsleep"}}

\* A faulty wait: the first task to finish ends the rendering stage.
TerminalFirstCompleted(r) == \E i \in SceneIndices(r) : task[r][i].pc \in {"ok", "failed"}

\* asyncio.gather(*tasks) has returned: every task has returned its clip or
\* None.
Terminal(r) == \A i \in SceneIndices(r) : task[r][i].pc \in {"ok", "failed"}

NewTask ==
    [pc |-> "sem", attempt |-> 0, delay |-> 0, kws |-> <<>>, kwi |-> 0, step |-> 0,
     dl |-> 0, url |-> None, src |-> None, path |-> NoFile]

\* A call of process_scene starts: it awaits synthesize_voice.
StartAttempt(t) ==
    [NewTask EXCEPT !.pc = "tts", !.attempt = t.attempt + 1]

(***************************************************************************)
(* process_scene, from one await to the next.  Each operator below gives   *)
(* the effect of the code that runs without suspending: the new task       *)
(* record t, the new disk d, and err, whether a record is appended to      *)
(* scene_errors.  render is the outcome of the two                         *)
(* transcoder calls.                                                       *)
(***************************************************************************)
\* The keys of RESOLUTIONS.
Resolutions == {"16:9", "9:16", "1:1"}

\* crop_video_to_aspect_ratio and combine_video_audio both give a valid clip,
\* or one of them raises or gives a clip that does not validate.
RenderOutcomes == {"ok", "crop_fails", "combine_fails"}

\* The finally block of process_scene: temp_files holds the narration, the
\* raw clip and the cropped clip of the attempt.
SceneCleanup(d, r, i, a) ==
    RemoveFiles(d, {File(r, "voice", i, 0), File(r, "raw", i, a), File(r, "cropped", i, a)})

\* delay = (2 ** attempt) * 1.5 seconds, in half seconds, after the failure
\* of attempt number k (the code counts its attempts from 0).
BackoffDelay(k) == (2 ^ (k - 1)) * 3

\* A faulty retry loop: one attempt more than max_attempts.
AttemptFailedOnceMore(t, d, r, i) ==
    [t |-> [t EXCEPT !.pc = IF t.attempt < MaxAttempts + 1 THEN "backoff" ELSE "failed",
                     !.delay = IF t.attempt < MaxAttempts + 1 THEN BackoffDelay(t.attempt) ELSE 0],
     d |-> SceneCleanup(d, r, i, t.attempt),
     err |-> t.attempt >= MaxAttempts + 1]

\* process_scene raised: process_scene_with_retries sleeps before the next
\* attempt, or after the last attempt records the scene and returns None.
AttemptFailed(t, d, r, i) ==
    [t |-> [t EXCEPT !.pc = IF t.attempt < MaxAttempts THEN "backoff" ELSE "failed",
                     !.delay = IF t.attempt < MaxAttempts THEN BackoffDelay(t.attempt) ELSE 0],
     d |-> SceneCleanup(d, r, i, t.attempt),
     err |-> t.attempt >= MaxAttempts]

\* A faulty retry loop: a record is appended for a scene that was rendered.
AttemptSucceededAndRecorded(t, d, r, i) ==
    [t |-> [t EXCEPT !.pc = "ok", !.path = File(r, "scene", i, t.attempt)],
     d |-> WriteFile(SceneCleanup(d, r, i, t.attempt),
                     File(r, "scene", i, t.attempt), "valid"),
     err |-> TRUE]

\* process_scene returned scene_output_path.
AttemptSucceeded(t, d, r, i) ==
    [t |-> [t EXCEPT !.pc = "ok", !.path = File(r, "scene", i, t.attempt)],
     d |-> WriteFile(SceneCleanup(d, r, i, t.attempt),
                     File(r, "scene", i, t.attempt), "valid"),
     err |-> FALSE]

\* A faulty validation block: the copy of the default placeholder is taken
\* without being validated.
ValidateRawClipOnce(d, raw, src, use_placeholder) ==
    LET fallback == /\ use_placeholder
                    /\ IsLocalFile(DefaultPlaceholder)
                    /\ src \notin {"default_placeholder", "default_placeholder_fallback"}
    IN IF ValidateVideoFile(d, raw)
       THEN [d |-> d, replaced |-> 0, ok |-> TRUE]
       ELSE IF fallback
       THEN [d |-> WriteFile(d, raw, world.local[DefaultPlaceholder]), replaced |-> 1,
             ok |-> TRUE]
       ELSE [d |-> d, replaced |-> 0, ok |-> FALSE]

\* Validation of the raw clip with its fallback to the default placeholder:
\* the disk afterwards, how often the clip was replaced, and whether the
\* block went through without raising.
ValidateRawClip(d, raw, src, use_placeholder) ==
    LET fallback == /\ use_placeholder
                    /\ IsLocalFile(DefaultPlaceholder)
                    /\ src \notin {"default_placeholder", "default_placeholder_fallback"}
        d1 == WriteFile(d, raw, world.local[DefaultPlaceholder])
    IN IF ValidateVideoFile(d, raw)
       THEN [d |-> d, replaced |-> 0, ok |-> TRUE]
       ELSE IF fallback
       THEN [d |-> d1, replaced |-> 1, ok |-> ValidateVideoFile(d1, raw)]
       ELSE [d |-> d, replaced |-> 0, ok |-> FALSE]

\* Validation of the raw clip, cropping, which raises for an aspect ratio
\* that is not in RESOLUTIONS, and combining.
RenderClip(t, d, r, i, render) ==
    LET raw == File(r, "raw", i, t.attempt)
        v == ValidateRawClip(d, raw, t.src, job[r].use_placeholder)
    IN IF v.ok /\ job[r].aspect_ratio \in Resolutions /\ render = "ok"
       THEN AttemptSucceeded(t, v.d, r, i)
       ELSE AttemptFailed(t, v.d, r, i)

\* The clip is copied when video_url is an existing absolute path, and is
\* downloaded otherwise: the task then awaits download_media.
AcquireClip(t, d, r, i, render) ==
    IF IsLocalFile(t.url)
    THEN RenderClip(t, WriteFile(d, File(r, "raw", i, t.attempt), world.local[t.url]),
                    r, i, render)
    ELSE [t |-> [t EXCEPT !.pc = "download", !.dl = 1], d |-> d, err |-> FALSE]

\* A faulty download fallback: use_placeholder is not looked at.
DownloadsExhaustedAlways(t, d, r, i, render) ==
    IF IsLocalFile(DefaultPlaceholder)
    THEN RenderClip([t EXCEPT !.src = "default_placeholder_fallback"],
                    WriteFile(d, File(r, "raw", i, t.attempt), world.local[DefaultPlaceholder]),
                    r, i, render)
    ELSE AttemptFailed(t, d, r, i)

\* All downloads failed: the default placeholder, or the attempt fails.
DownloadsExhausted(t, d, r, i, render) ==
    IF job[r].use_placeholder /\ IsLocalFile(DefaultPlaceholder)
    THEN RenderClip([t EXCEPT !.src = "default_placeholder_fallback"],
                    WriteFile(d, File(r, "raw", i, t.attempt), world.local[DefaultPlaceholder]),
                    r, i, render)
    ELSE AttemptFailed(t, d, r, i)

\* A faulty placeholder tier: use_placeholder is not looked at.
PlaceholderTierAlways(t, d, r, i, render) ==
    IF job[r].placeholder_url /= None
    THEN AcquireClip([t EXCEPT !.url = job[r].placeholder_url, !.src = "custom_placeholder"],
                     d, r, i, render)
    ELSE IF IsLocalFile(DefaultPlaceholder)
    THEN AcquireClip([t EXCEPT !.url = DefaultPlaceholder, !.src = "default_placeholder"],
                     d, r, i, render)
    ELSE AttemptFailed(t, d, r, i)

\* No stock video was found: the placeholder tiers, or the attempt fails.
PlaceholderTier(t, d, r, i, render) ==
    IF job[r].use_placeholder /\ job[r].placeholder_url /= None
    THEN AcquireClip([t EXCEPT !.url = job[r].placeholder_url, !.src = "custom_placeholder"],
                     d, r, i, render)
    ELSE IF job[r].use_placeholder /\ IsLocalFile(DefaultPlaceholder)
    THEN AcquireClip([t EXCEPT !.url = DefaultPlaceholder, !.src = "default_placeholder"],
                     d, r, i, render)
    ELSE AttemptFailed(t, d, r, i)

\* A faulty resolver: the custom URL is ignored.
ResolveStartStockOnly(t, d, r, i, keywords, render) ==
    [t |-> [t EXCEPT !.pc = "search",
                     !.kws = AllKeywords(SceneText(r, i), keywords),
                     !.kwi = 1, !.step = 1],
     d |-> d, err |-> FALSE]

\* The narration is there: the custom URL of the scene if it has one, and
\* otherwise the stock search, which awaits the first provider call.
ResolveStart(t, d, r, i, keywords, render) ==
    LET custom_urls == CustomUrls(job[r].custom_media, NumScenes(r))
    IN IF i \in DOMAIN custom_urls /\ custom_urls[i] /= ""
       THEN AcquireClip([t EXCEPT !.url = custom_urls[i], !.src = "custom"],
                        d, r, i, render)
       ELSE [t |-> [t EXCEPT !.pc = "search",
                             !.kws = AllKeywords(SceneText(r, i), keywords),
                             !.kwi = 1, !.step = 1],
             d |-> d, err |-> FALSE]

\* The effect of a step of scene i of run r on the task, the disk, the
\* failure records and the record of scenes finishing out of order.
Apply(r, i, eff) ==
    /\ task' = [task EXCEPT ![r][i] = eff.t]
    /\ disk' = eff.d
    /\ scene_errors' = IF eff.err THEN [scene_errors EXCEPT ![r][i] = @ + 1]
                       ELSE scene_errors
    /\ overtaken' = [overtaken EXCEPT ![r] =
                        @ \/ (/\ eff.t.pc = "ok"
                              /\ \E j \in SceneIndices(r) :
                                    j < i /\ task[r][j].pc \notin {"ok", "failed"})]

(***************************************************************************)
(* The scene tasks of process_all_scenes.                                  *)
(***************************************************************************)
\* The candidates of every query a scene with these keyword sets can send.
Candidates(kws) ==
    UNION {UNION {Range(Pexels(q)) \cup Range(Pixabay(q)) : q \in Range(QueriesOf(kws[k]))}
           : k \in 1..Len(kws)}

\* "async with semaphore": the waiting tasks are woken in the order in which
\* they were created, one for each free slot.
AcquireSem(r, i) ==
    /\ stage[r] = "rendering"
    /\ task[r][i].pc = "sem"
    /\ \A j \in SceneIndices(r) : task[r][j].pc = "sem" => i <= j
    /\ Cardinality(Holding(r)) < MaxWorkers(NumScenes(r))
    /\ task' = [task EXCEPT ![r][i] = StartAttempt(@)]
    /\ UNCHANGED other_vars
    /\ UNCHANGED <<job, world, stage, scenes, scene_errors, scene_paths, used_videos,
                   disk, temp_files, final_path, result, selected, searched,
                   dedup_log, overtaken>>

\* synthesize_voice returns or raises; on success the resolver runs up to its
\* first await.
TtsReturn(r, i) ==
    /\ stage[r] = "rendering"
    /\ task[r][i].pc = "tts"
    /\ LET t == task[r][i]
           d == WriteFile(disk, File(r, "voice", i, 0), "valid")
       IN \/ /\ Apply(r, i, AttemptFailed(t, disk, r, i))
             /\ UNCHANGED searched
          \/ \E render \in RenderOutcomes :
             \E keywords \in GetSceneKeywords(SceneText(r, i)) :
                LET eff == ResolveStart(t, d, r, i, keywords, render)
                IN /\ Apply(r, i, eff)
                   /\ searched' = IF eff.t.pc = "search"
                                  THEN [searched EXCEPT ![r] = @ \cup {i}]
                                  ELSE searched
    /\ UNCHANGED other_vars
    /\ UNCHANGED <<job, world, stage, scenes, scene_paths, used_videos, temp_files,
                   final_path, result, selected, dedup_log>>

\* A faulty dedup step: the URL is returned but the insertion has not taken
\* effect when the next scene task runs.
MarkUsedLater(used, video_url) == used

\* used_videos.add(video_url), in the same synchronous block as the test
\* "video_url not in used_videos": no await lies between the two.
MarkUsed(used, video_url) == used \cup {video_url}

\* A provider call of fetch_stock_media returns: the results are scanned for a
\* URL that is not in used_videos; the last call of a fetch_stock_media falls
\* back to the first result of the last query, and process_scene goes on to
\* its next keyword set or to the placeholder tiers.
SearchReturn(r, i) ==
    /\ stage[r] = "rendering"
    /\ task[r][i].pc = "search"
    /\ \E render \in RenderOutcomes :
          LET t == task[r][i]
              qs == QueriesOf(t.kws[t.kwi])
              q == qs[(t.step + 1) \div 2]
              results == IF t.step % 2 = 1 THEN Pexels(q) ELSE Pixabay(q)
              fresh == {k \in 1..Len(results) : results[k] \notin used_videos}
              first == CHOOSE k \in fresh : \A j \in fresh : k <= j
              last_pexels == Pexels(qs[Len(qs)])
              last_pixabay == Pixabay(qs[Len(qs)])
              reuse == IF last_pexels /= <<>> THEN last_pexels[1]
                       ELSE IF last_pixabay /= <<>> THEN last_pixabay[1]
                       ELSE None
              unused_left == Candidates(t.kws) \ used_videos /= {}
          IN IF fresh /= {}
             THEN /\ used_videos' = MarkUsed(used_videos, results[first])
                  /\ selected' = [selected EXCEPT ![r] = @ \cup {results[first]}]
                  /\ Apply(r, i, AcquireClip([t EXCEPT !.url = results[first], !.src = "stock"],
                                             disk, r, i, render))
                  /\ UNCHANGED dedup_log
             ELSE IF t.step < 2 * Len(qs)
             THEN /\ Apply(r, i, [t |-> [t EXCEPT !.step = @ + 1], d |-> disk, err |-> FALSE])
                  /\ UNCHANGED <<used_videos, selected, dedup_log>>
             ELSE IF reuse /= None
             THEN /\ Apply(r, i, AcquireClip([t EXCEPT !.url = reuse, !.src = "stock"],
                                             disk, r, i, render))
                  /\ dedup_log' =
                        IF reuse \in selected[r]
                        THEN [dedup_log EXCEPT ![r] =
                                [avoidable |-> @.avoidable \/ unused_left,
                                 forced |-> @.forced \/ ~unused_left]]
                        ELSE dedup_log
                  /\ UNCHANGED <<used_videos, selected>>
             ELSE IF t.kwi < Len(t.kws)
             THEN /\ Apply(r, i, [t |-> [t EXCEPT !.kwi = @ + 1, !.step = 1],
                                  d |-> disk, err |-> FALSE])
                  /\ UNCHANGED <<used_videos, selected, dedup_log>>
             ELSE /\ Apply(r, i, PlaceholderTier(t, disk, r, i, render))
                  /\ UNCHANGED <<used_videos, selected, dedup_log>>
    /\ UNCHANGED other_vars
    /\ UNCHANGED <<job, world, stage, scenes, scene_paths, temp_files, final_path,
                   result, searched>>

\* download_media returns with a clip that decodes or does not, leaves an
\* empty file, or raises.
DownloadReturn(r, i) ==
    /\ stage[r] = "rendering"
    /\ task[r][i].pc = "download"
    /\ \E got \in {"valid", "corrupt", "empty", "error"},
          render \in RenderOutcomes :
          LET t == task[r][i]
              raw == File(r, "raw", i, t.attempt)
          IN CASE got \in {"valid", "corrupt"} ->
                    Apply(r, i, RenderClip(t, WriteFile(disk, raw, got), r, i,
                                           render))
               [] got = "empty" ->
                    IF t.dl < MaxDownloadAttempts
                    THEN Apply(r, i, [t |-> [t EXCEPT !.dl = @ + 1],
                                      d |-> WriteFile(disk, raw, "empty"), err |-> FALSE])
                    ELSE Apply(r, i, DownloadsExhausted(t, WriteFile(disk, raw, "empty"),
                                                        r, i, render))
               [] got = "error" ->
                    Apply(r, i, [t |-> [t EXCEPT !.pc = "dlsleep"], d |-> disk, err |-> FALSE])
    /\ UNCHANGED other_vars
    /\ UNCHANGED <<job, world, stage, scenes, scene_paths, used_videos, temp_files,
                   final_path, result, selected, searched, dedup_log>>

\* The sleep after a download that raised is over.
DownloadSleepReturn(r, i) ==
    /\ stage[r] = "rendering"
    /\ task[r][i].pc = "dlsleep"
    /\ \E render \in RenderOutcomes :
          LET t == task[r][i]
          IN IF t.dl < MaxDownloadAttempts
             THEN Apply(r, i, [t |-> [t EXCEPT !.pc = "download", !.dl = @ + 1],
                               d |-> disk, err |-> FALSE])
             ELSE Apply(r, i, DownloadsExhausted(t, disk, r, i, render))
    /\ UNCHANGED other_vars
    /\ UNCHANGED <<job, world, stage, scenes, scene_paths, used_videos, temp_files,
                   final_path, result, selected, searched, dedup_log>>

\* The backoff sleep of process_scene_with_retries is over: the next attempt.
BackoffReturn(r, i) ==
    /\ stage[r] = "rendering"
    /\ task[r][i].pc = "backoff"
    /\ task' = [task EXCEPT ![r][i] = StartAttempt(@)]
    /\ UNCHANGED other_vars
    /\ UNCHANGED <<job, world, stage, scenes, scene_errors, scene_paths, used_videos,
                   disk, temp_files, final_path, result, selected, searched,
                   dedup_log, overtaken>>

(***************************************************************************)
(* process_scripted_video_v1                                               *)
(***************************************************************************)
\* What a run gave its caller: the path returned, or the message of the
\* exception raised.
Pending == [kind |-> "pending", path |-> NoFile]
Raised(exception) == [kind |-> exception, path |-> NoFile]
Returned(path) == [kind |-> "returned", path |-> path]

\* The run takes the exception exit: the except block removes final_path and
\* the finally block the files of temp_files.
ExitFailed(d, tf, fp) == RemoveFiles(d, tf \cup {fp})

\* The run returns final_path: the finally block removes the files of
\* temp_files other than final_path.
ExitReturned(d, tf, fp) == RemoveFiles(d, tf \ {fp})

\* The run starts: used_videos is reset and the script is split into scenes;
\* process_all_scenes creates one task per scene.
StartRun(r) ==
    /\ stage[r] = "idle"
    /\ job[r].active
    /\ used_videos' = {}
    /\ IF ExtractScenesRaises(job[r].script)
       THEN /\ stage' = [stage EXCEPT ![r] = "failed"]
            /\ result' = [result EXCEPT ![r] = Raised("Script is empty")]
            /\ UNCHANGED <<scenes, task, scene_errors>>
       ELSE LET sc == ExtractScenes(job[r].script)
            IN /\ stage' = [stage EXCEPT ![r] = "rendering"]
               /\ scenes' = [scenes EXCEPT ![r] = sc]
               /\ task' = [task EXCEPT ![r] = [i \in 0..(Len(sc) - 1) |-> NewTask]]
               /\ scene_errors' = [scene_errors EXCEPT ![r] = [i \in 0..(Len(sc) - 1) |-> 0]]
               /\ UNCHANGED result
    /\ UNCHANGED other_vars
    /\ UNCHANGED <<job, world, scene_paths, disk, temp_files, final_path, selected,
                   searched, dedup_log, overtaken>>

RECURSIVE SumOver(_, _)
SumOver(f, S) ==
    IF S = {} THEN 0
    ELSE LET x == CHOOSE y \in S : TRUE IN f[x] + SumOver(f, S \ {x})

\* len(scene_errors)
ErrorCount(r) == SumOver(scene_errors[r], SceneIndices(r))

\* A faulty gather: the results in reverse order.
GatherResultsReversed(r) ==
    [k \in 1..NumScenes(r) |-> task[r][NumScenes(r) - k].path]

\* asyncio.gather(*tasks): the results in the order of the tasks.
GatherResults(r) == [k \in 1..NumScenes(r) |-> task[r][k - 1].path]

\* Every task is done: the failure policy of process_all_scenes.
GatherDone(r) ==
    /\ stage[r] = "rendering"
    /\ Terminal(r)
    /\ LET failed == ErrorCount(r)
           paths == IF failed > 0
                    THEN SelectSeq(GatherResults(r), LAMBDA x : x /= NoFile)
                    ELSE GatherResults(r)
       IN IF (failed > 0 /\ TooManyFailed(failed, NumScenes(r))) \/ paths = <<>>
          THEN /\ stage' = [stage EXCEPT ![r] = "failed"]
               /\ result' = [result EXCEPT ![r] =
                                IF failed > 0 /\ TooManyFailed(failed, NumScenes(r))
                                THEN Raised("Too many scene processing failures")
                                ELSE Raised("All scenes failed to process")]
               /\ disk' = ExitFailed(disk, temp_files[r], final_path[r])
               /\ UNCHANGED scene_paths
          ELSE /\ stage' = [stage EXCEPT ![r] = "concatenating"]
               /\ scene_paths' = [scene_paths EXCEPT ![r] = paths]
               /\ UNCHANGED <<result, disk>>
    /\ UNCHANGED other_vars
    /\ UNCHANGED <<job, world, scenes, task, scene_errors, used_videos, temp_files,
                   final_path, selected, searched, dedup_log, overtaken>>

\* concatenate_videos joins the scene clips into final_path or raises; it
\* removes its own temporaries and, when it raises, its output.
Concatenate(r) ==
    /\ stage[r] = "concatenating"
    /\ \E joined \in BOOLEAN :
          LET fp == File(r, "final", 0, 0)
              tf == temp_files[r] \cup Range(scene_paths[r])
          IN /\ final_path' = [final_path EXCEPT ![r] = fp]
             /\ temp_files' = [temp_files EXCEPT ![r] = tf]
             /\ IF joined
                THEN /\ disk' = WriteFile(disk, fp, "valid")
                     /\ stage' = [stage EXCEPT ![r] =
                                    IF job[r].add_captions THEN "captioning" ELSE "verifying"]
                     /\ UNCHANGED result
                ELSE /\ disk' = ExitFailed(disk, tf, fp)
                     /\ stage' = [stage EXCEPT ![r] = "failed"]
                     /\ result' = [result EXCEPT ![r] =
                                      Raised("Failed to combine video scenes")]
    /\ UNCHANGED other_vars
    /\ UNCHANGED <<job, world, scenes, task, scene_errors, scene_paths, used_videos,
                   selected, searched, dedup_log, overtaken>>

\* A faulty caption check: a captioned file is taken without validation.
CaptionedFileUnchecked(d, service, captioned) ==
    service \in {"valid", "corrupt"}

\* The captioned video replaces the concatenated one when the caption service
\* returned the path of an existing file that validates.
CaptionedFile(d, service, captioned) ==
    /\ service \in {"valid", "corrupt"}
    /\ Exists(d, captioned)
    /\ ValidateVideoFile(d, captioned)

\* The caption block.  whisper: the transcription has segments, has none, or
\* raises; fallback: generate_srt_from_script returns or raises; written: the
\* SRT file could be written; service: process_captioning_v1 returns the path
\* of a file that validates or does not, a path that does not exist, nothing,
\* or raises.  No outcome raises out of the block.
Caption(r) ==
    /\ stage[r] = "captioning"
    /\ \E whisper \in {"segments", "empty", "raises"}, fallback \in {"ok", "raises"},
          written \in BOOLEAN,
          service \in {"valid", "corrupt", "missing", "none", "raises"} :
          LET srt == File(r, "srt", 0, 0)
              captioned == File(r, "captioned", 0, 0)
              has_srt == whisper = "segments" \/ (whisper = "raises" /\ fallback = "ok")
              d1 == IF has_srt /\ written THEN WriteFile(disk, srt, "text") ELSE disk
              called == has_srt /\ written
              d2 == IF called /\ service \in {"valid", "corrupt"}
                    THEN WriteFile(d1, captioned, service)
                    ELSE d1
          IN /\ disk' = d2
             /\ IF called /\ CaptionedFile(d2, service, captioned)
                THEN /\ temp_files' = [temp_files EXCEPT ![r] = @ \cup {srt, final_path[r]}]
                     /\ final_path' = [final_path EXCEPT ![r] = captioned]
                ELSE /\ temp_files' = [temp_files EXCEPT ![r] = @ \cup {srt}]
                     /\ UNCHANGED final_path
    /\ stage' = [stage EXCEPT ![r] = "verifying"]
    /\ UNCHANGED other_vars
    /\ UNCHANGED <<job, world, scenes, task, scene_errors, scene_paths, used_videos,
                   result, selected, searched, dedup_log, overtaken>>

\* The final verification of final_path, and the exit of the run.
Verify(r) ==
    /\ stage[r] = "verifying"
    /\ LET fp == final_path[r]
       IN IF Exists(disk, fp) /\ disk[fp] /= "empty" /\ ValidateVideoFile(disk, fp)
          THEN /\ stage' = [stage EXCEPT ![r] = "done"]
               /\ result' = [result EXCEPT ![r] = Returned(fp)]
               /\ disk' = ExitReturned(disk, temp_files[r], fp)
          ELSE /\ stage' = [stage EXCEPT ![r] = "failed"]
               /\ result' = [result EXCEPT ![r] = Raised("Final video file is invalid")]
               /\ disk' = ExitFailed(disk, temp_files[r], fp)
    /\ UNCHANGED other_vars
    /\ UNCHANGED <<job, world, scenes, task, scene_errors, scene_paths, used_videos,
                   temp_files, final_path, selected, searched, dedup_log, overtaken>>

(***************************************************************************)
(* Inputs and specifications.                                              *)
(***************************************************************************)
NoJob ==
    [active |-> FALSE, script |-> <<>>, aspect_ratio |-> "16:9", custom_media |-> <<>>,
     use_placeholder |-> TRUE, placeholder_url |-> None, add_captions |-> FALSE]

\* A custom media file on the local disk, and media behind URLs.
LocalClip == "/media/clip.mp4"
CustomUrl == "https://media.example/custom.mp4"
PlaceholderUrl == "https://media.example/placeholder.mp4"

ParaPark == Park
ParaDogPark == Dog \o <<SP>> \o Park

\* n paragraphs separated by one blank line.
ScriptOf(paragraphs) == Join(<<NL, NL>>, paragraphs)

\* custom_media giving every scene of 0..n-1 the same URL.
CustomForAll(n, url) == [k \in 1..n |-> [scene_index |-> k - 1, media_url |-> url]]

\* The catalogues of the two providers.
EmptyCatalogue == [q \in {} |-> <<>>]
ParkDogCatalogue == (Park :> <<"stock1">>) @@ (Dog :> <<"stock2">>)

InitWith(jobs, w) ==
    /\ job = jobs
    /\ world = w
    /\ stage = [r \in Runs |-> "idle"]
    /\ scenes = [r \in Runs |-> <<>>]
    /\ task = [r \in Runs |-> <<>>]
    /\ scene_errors = [r \in Runs |-> <<>>]
    /\ scene_paths = [r \in Runs |-> <<>>]
    /\ used_videos = {}
    /\ disk = [f \in {} |-> "valid"]
    /\ temp_files = [r \in Runs |-> {}]
    /\ final_path = [r \in Runs |-> NoFile]
    /\ result = [r \in Runs |-> Pending]
    /\ selected = [r \in Runs |-> {}]
    /\ searched = [r \in Runs |-> {}]
    /\ dedup_log = [r \in Runs |-> [avoidable |-> FALSE, forced |-> FALSE]]
    /\ overtaken = [r \in Runs |-> FALSE]
    /\ OtherInit

\* Only run 1 is started.
OneJob(j) == [r \in Runs |-> IF r = 1 THEN j ELSE NoJob]

(* The decomposition specification: every script of at most MaxScriptLen   *)
(* characters is split into scenes.                                        *)
ScriptChars == {"a", SP, TAB, NL}
Scripts == UNION {[1..n -> ScriptChars] : n \in 0..MaxScriptLen}

InitExtract ==
    \E script \in Scripts :
        InitWith(OneJob([NoJob EXCEPT !.active = TRUE, !.script = script]),
                 [pexels |-> EmptyCatalogue, pixabay |-> EmptyCatalogue,
                  local |-> (DefaultPlaceholder :> "valid")])

NextExtract == StartRun(1)

SpecExtract == InitExtract /\ [][NextExtract]_vars

(* The scheduling specification: one run of 1..MaxScenes scenes, every     *)
(* scene with custom media that is a local file, so that a scene attempt   *)
(* awaits the narration only; the aspect ratio is a supported one or not.  *)
(* One more run has a long script of LongScriptScenes scenes.              *)
InitSched ==
    \/ \E n \in 1..MaxScenes, ratio \in {"16:9", "4:5"} :
        InitWith(OneJob([NoJob EXCEPT !.active = TRUE,
                                      !.script = ScriptOf([k \in 1..n |-> ParaPark]),
                                      !.aspect_ratio = ratio,
                                      !.custom_media = CustomForAll(n, LocalClip)]),
                 [pexels |-> EmptyCatalogue, pixabay |-> EmptyCatalogue,
                  local |-> (DefaultPlaceholder :> "valid") @@ (LocalClip :> "valid")])
    \/ InitWith(OneJob([NoJob EXCEPT !.active = TRUE,
                                      !.script = ScriptOf([k \in 1..LongScriptScenes |-> <<"a">>]),
                                      !.custom_media = CustomForAll(LongScriptScenes, LocalClip)]),
                 [pexels |-> EmptyCatalogue, pixabay |-> EmptyCatalogue,
                  local |-> (DefaultPlaceholder :> "valid") @@ (LocalClip :> "valid")])

NextSched ==
    \/ StartRun(1)
    \/ \E i \in SceneIndices(1) : AcquireSem(1, i)
    \/ \E i \in SceneIndices(1) : TtsReturn(1, i)
    \/ \E i \in SceneIndices(1) : BackoffReturn(1, i)
    \/ GatherDone(1)
    \/ Concatenate(1)
    \/ Verify(1)

SpecSched == InitSched /\ [][NextSched]_vars

\* A run all of whose scenes fail: every scene has a custom clip that does
\* not decode, and placeholders are switched off.
InitFailing ==
    InitWith(OneJob([NoJob EXCEPT !.active = TRUE,
                                  !.script = ScriptOf([k \in 1..FailingScenes |-> <<"a">>]),
                                  !.use_placeholder = FALSE,
                                  !.custom_media = CustomForAll(FailingScenes, LocalClip)]),
             [pexels |-> EmptyCatalogue, pixabay |-> EmptyCatalogue,
              local |-> (LocalClip :> "invalid")])

NextFailing ==
    \/ StartRun(1)
    \/ \E i \in SceneIndices(1) : AcquireSem(1, i)
    \/ \E i \in SceneIndices(1) : TtsReturn(1, i)
    \/ \E i \in SceneIndices(1) : BackoffReturn(1, i)
    \/ GatherDone(1)

SpecFailing == InitFailing /\ [][NextFailing]_vars

(* The pipeline specification: one run of two scenes "dog park"; the first *)
(* scene has custom media behind a URL or none, the stock catalogue knows   *)
(* the two words or nothing, and the placeholder and caption options vary. *)
\* use_placeholder with placeholder_url; without use_placeholder the URL is
\* not looked at.
PlaceholderOptions == {<<TRUE, None>>, <<TRUE, PlaceholderUrl>>, <<FALSE, None>>}

PipelineJobs ==
    {[NoJob EXCEPT !.active = TRUE,
                   !.script = ScriptOf(<<ParaDogPark, ParaDogPark>>),
                   !.custom_media = cm,
                   !.use_placeholder = po[1],
                   !.placeholder_url = po[2],
                   !.add_captions = ac] :
        cm \in {<<>>, <<[scene_index |-> 0, media_url |-> CustomUrl]>>},
        po \in PlaceholderOptions, ac \in BOOLEAN}

PipelineWorlds ==
    {[pexels |-> px, pixabay |-> EmptyCatalogue, local |-> (DefaultPlaceholder :> "valid")] :
        px \in {ParkDogCatalogue, EmptyCatalogue}}

\* The scripts of at most MaxScriptLen characters that hold whitespace only.
BlankScripts == UNION {[1..n -> Whitespace] : n \in 0..MaxScriptLen}

BlankJobs == {[NoJob EXCEPT !.active = TRUE, !.script = script] : script \in BlankScripts}

\* A job of two scenes whose custom_media names scene 0 and a scene index
\* that is out of range.
OutOfRangeJob ==
    [NoJob EXCEPT !.active = TRUE,
                  !.script = ScriptOf(<<ParaDogPark, ParaDogPark>>),
                  !.custom_media = <<[scene_index |-> 0, media_url |-> CustomUrl],
                                     [scene_index |-> 2, media_url |-> CustomUrl]>>]

\* A job of two scenes without custom media and without placeholder URL, in
\* a world where the providers know nothing and the default placeholder asset
\* does not exist.
StockOnlyJob ==
    [NoJob EXCEPT !.active = TRUE, !.script = ScriptOf(<<ParaDogPark, ParaDogPark>>)]

BareWorld ==
    [pexels |-> EmptyCatalogue, pixabay |-> EmptyCatalogue, local |-> [f \in {} |-> "valid"]]

Init ==
    \/ \E j \in PipelineJobs, w \in PipelineWorlds : InitWith(OneJob(j), w)
    \/ \E w \in PipelineWorlds : InitWith(OneJob(OutOfRangeJob), w)
    \/ InitWith(OneJob(StockOnlyJob), BareWorld)
    \/ \E j \in BlankJobs, w \in PipelineWorlds : InitWith(OneJob(j), w)

Next ==
    \/ StartRun(1)
    \/ \E i \in SceneIndices(1) : AcquireSem(1, i)
    \/ \E i \in SceneIndices(1) : TtsReturn(1, i)
    \/ \E i \in SceneIndices(1) : SearchReturn(1, i)
    \/ \E i \in SceneIndices(1) : DownloadReturn(1, i)
    \/ \E i \in SceneIndices(1) : DownloadSleepReturn(1, i)
    \/ \E i \in SceneIndices(1) : BackoffReturn(1, i)
    \/ GatherDone(1)
    \/ Concatenate(1)
    \/ Caption(1)
    \/ Verify(1)

Spec == Init /\ [][Next]_vars

(* The reuse specification: two scenes "dog park" search a catalogue that  *)
(* knows one clip, under the query "dog park" only.                        *)
DogParkOnlyCatalogue == (ParaDogPark :> <<"stock1">>)

InitReuse ==
    InitWith(OneJob(StockOnlyJob),
             [pexels |-> DogParkOnlyCatalogue, pixabay |-> EmptyCatalogue,
              local |-> (DefaultPlaceholder :> "valid")])

NextReuse ==
    \/ StartRun(1)
    \/ \E i \in SceneIndices(1) : AcquireSem(1, i)
    \/ \E i \in SceneIndices(1) : TtsReturn(1, i)
    \/ \E i \in SceneIndices(1) : SearchReturn(1, i)
    \/ \E i \in SceneIndices(1) : DownloadReturn(1, i)
    \/ \E i \in SceneIndices(1) : DownloadSleepReturn(1, i)
    \/ \E i \in SceneIndices(1) : BackoffReturn(1, i)
    \/ GatherDone(1)
    \/ Concatenate(1)
    \/ Verify(1)

SpecReuse == InitReuse /\ [][NextReuse]_vars

(* The overlap specification: every run has the same one-scene job and the *)
(* runs interleave, as requests served at the same time do.                *)
InitOverlap ==
    InitWith([r \in Runs |-> [NoJob EXCEPT !.active = TRUE, !.script = ParaDogPark]],
             [pexels |-> ParkDogCatalogue, pixabay |-> EmptyCatalogue,
              local |-> (DefaultPlaceholder :> "valid")])

NextOverlap ==
    \/ \E r \in Runs : StartRun(r)
    \/ \E r \in Runs : \E i \in SceneIndices(r) : AcquireSem(r, i)
    \/ \E r \in Runs : \E i \in SceneIndices(r) : TtsReturn(r, i)
    \/ \E r \in Runs : \E i \in SceneIndices(r) : SearchReturn(r, i)
    \/ \E r \in Runs : \E i \in SceneIndices(r) : DownloadReturn(r, i)
    \/ \E r \in Runs : \E i \in SceneIndices(r) : DownloadSleepReturn(r, i)
    \/ \E r \in Runs : \E i \in SceneIndices(r) : BackoffReturn(r, i)
    \/ \E r \in Runs : GatherDone(r)
    \/ \E r \in Runs : Concatenate(r)
    \/ \E r \in Runs : Verify(r)

SpecOverlap == InitOverlap /\ [][NextOverlap]_vars

(***************************************************************************)
(* One call of fetch_stock_media(query) without custom URL, seen with the  *)
(* HTTP requests of its provider calls.  The calls are numbered in the     *)
(* order of the code: call 2k-1 asks Pexels and call 2k asks Pixabay for   *)
(* query k of QueriesOf(query).  Only call 1 goes through with_retries.    *)
(***************************************************************************)
max_retries == 3
retry_delay == 1

\* What a request to a provider may end in: status 200, another status, or
\* an exception of the HTTP client.
HttpOutcomes == {"200", "500", "network_error"}

\* fetch_from_pexels and fetch_from_pixabay catch every exception and log it.
FetchRaises(outcome) == FALSE

\* The list fetch_from_pexels or fetch_from_pixabay returns.
FetchFrom(provider, query, outcome) ==
    IF outcome = "200"
    THEN IF provider = "pexels" THEN Pexels(query) ELSE Pixabay(query)
    ELSE <<>>

\* with_retries after one await of func: it returns the result, sleeps
\* delay * 2 ** attempt and calls again, or raises the last error.
WithRetries(raised, attempt) ==
    IF ~raised THEN "return"
    ELSE IF attempt < max_retries THEN "sleep"
    ELSE "raise"

ProviderOfCall(call) == IF call % 2 = 1 THEN "pexels" ELSE "pixabay"
QueryOfCall(query, call) == QueriesOf(query)[(call + 1) \div 2]

FetchBegin(query) ==
    /\ fetch.pc = "idle"
    /\ fetch' = [NoFetch EXCEPT !.pc = "request", !.query = query, !.call = 1,
                                !.attempt = 1]
    /\ UNCHANGED <<pipeline_vars, raw_clip, concat, captions,
                   task_queue, request, worker>>

\* The request of the current provider call is over.
FetchRequestReturn ==
    /\ fetch.pc = "request"
    /\ \E outcome \in HttpOutcomes :
          LET provider == ProviderOfCall(fetch.call)
              q == QueryOfCall(fetch.query, fetch.call)
              raised == FetchRaises(outcome)
              found == FetchFrom(provider, q, outcome)
              wrapped == fetch.call = 1
              step == IF wrapped THEN WithRetries(raised, fetch.attempt)
                      ELSE IF raised THEN "raise" ELSE "return"
              fresh == {k \in 1..Len(found) : found[k] \notin used_videos}
              first == CHOOSE k \in fresh : \A j \in fresh : k <= j
              f1 == [fetch EXCEPT
                       !.outcome = outcome,
                       !.wait = 0,
                       !.failed_calls = IF outcome = "200" THEN @ ELSE @ \cup {fetch.call},
                       !.results = IF provider = "pexels" THEN found ELSE @,
                       !.pixabay_results = IF provider = "pixabay" THEN found ELSE @]
          IN /\ fetch' =
                  IF step = "sleep"
                  THEN [fetch EXCEPT !.outcome = outcome,
                                     !.attempt = @ + 1,
                                     !.wait = retry_delay * (2 ^ (fetch.attempt - 1)),
                                     !.failed_calls = @ \cup {fetch.call}]
                  ELSE IF step = "raise"
                  THEN [f1 EXCEPT !.pc = "raised"]
                  ELSE IF fresh /= {}
                  THEN [f1 EXCEPT !.pc = "returned", !.returned = found[first]]
                  ELSE IF fetch.call < 2 * Len(QueriesOf(fetch.query))
                  THEN [f1 EXCEPT !.call = @ + 1, !.attempt = 1]
                  ELSE [f1 EXCEPT !.pc = "returned",
                                  !.returned = IF f1.results /= <<>> THEN f1.results[1]
                                               ELSE IF f1.pixabay_results /= <<>>
                                               THEN f1.pixabay_results[1]
                                               ELSE "None"]
             /\ used_videos' = IF step = "return" /\ fresh /= {}
                               THEN MarkUsed(used_videos, found[first])
                               ELSE used_videos
    /\ UNCHANGED <<job, world, stage, scenes, task, scene_errors, scene_paths,
                   disk, temp_files, final_path, result, selected, searched,
                   dedup_log, overtaken, raw_clip, concat, captions,
                   task_queue, request, worker>>

\* The next call of fetch_stock_media.
FetchAgain ==
    /\ fetch.pc \in {"returned", "raised"}
    /\ fetch' = NoFetch
    /\ UNCHANGED <<pipeline_vars, raw_clip, concat, captions,
                   task_queue, request, worker>>

IdleJobs == [r \in Runs |-> NoJob]

FetchQueries == {Park, ParaDogPark}

InitFetch ==
    \E px \in {ParkDogCatalogue, DogParkOnlyCatalogue, EmptyCatalogue} :
        InitWith(IdleJobs, [pexels |-> px, pixabay |-> EmptyCatalogue,
                            local |-> (DefaultPlaceholder :> "valid")])

NextFetch ==
    \/ \E query \in FetchQueries : FetchBegin(query)
    \/ FetchRequestReturn
    \/ FetchAgain

SpecFetch == InitFetch /\ [][NextFetch]_vars

(***************************************************************************)
(* The validation block of process_scene on its own: a raw clip of scene 0 *)
(* of run 1 has been acquired from one of the sources and is validated.    *)
(***************************************************************************)
VideoSources ==
    {"custom", "stock", "custom_placeholder", "default_placeholder",
     "default_placeholder_fallback"}

\* What a media file may hold.
Contents == {"valid", "corrupt", "empty"}

RawVideoPath == File(1, "raw", 0, 1)

\* raw_video_path has been written by a copy or by a download.
AcquireRaw ==
    /\ raw_clip.pc = "idle"
    /\ \E src \in VideoSources, content \in Contents :
          /\ src \in {"default_placeholder", "default_placeholder_fallback"} =>
                /\ job[1].use_placeholder
                /\ IsLocalFile(DefaultPlaceholder)
                /\ content = world.local[DefaultPlaceholder]
          /\ src = "custom_placeholder" => job[1].use_placeholder
          /\ raw_clip' = [NoRawClip EXCEPT !.pc = "acquired", !.src = src, !.raw = content]
          /\ disk' = WriteFile(disk, RawVideoPath, content)
    /\ UNCHANGED <<job, world, stage, scenes, task, scene_errors, scene_paths,
                   used_videos, temp_files, final_path, result, selected, searched,
                   dedup_log, overtaken, fetch, concat, captions,
                   task_queue, request, worker>>

\* The validation block has run; cropped is what the clip holds that goes to
\* crop_video_to_aspect_ratio.
ValidateRaw ==
    /\ raw_clip.pc = "acquired"
    /\ LET v == ValidateRawClip(disk, RawVideoPath, raw_clip.src, job[1].use_placeholder)
       IN /\ raw_clip' = [raw_clip EXCEPT !.pc = "validated",
                                          !.replaced = v.replaced,
                                          !.ok = v.ok,
                                          !.cropped = IF v.ok THEN v.d[RawVideoPath]
                                                      ELSE "none"]
          /\ disk' = v.d
    /\ UNCHANGED <<job, world, stage, scenes, task, scene_errors, scene_paths,
                   used_videos, temp_files, final_path, result, selected, searched,
                   dedup_log, overtaken, fetch, concat, captions,
                   task_queue, request, worker>>

InitValidate ==
    \E up \in BOOLEAN :
       \E local \in {[f \in {} |-> "valid"]}
                    \cup {(DefaultPlaceholder :> c) : c \in Contents} :
          InitWith(OneJob([NoJob EXCEPT !.use_placeholder = up]),
                   [pexels |-> EmptyCatalogue, pixabay |-> EmptyCatalogue,
                    local |-> local])

NextValidate ==
    \/ AcquireRaw
    \/ ValidateRaw

SpecValidate == InitValidate /\ [][NextValidate]_vars

(***************************************************************************)
(* One call of concatenate_videos(video_paths, output_path).  A clip has a *)
(* format, which is what ffprobe reports of its first video stream, and    *)
(* the file holds a video that decodes, one that does not, or is missing.  *)
(***************************************************************************)
VideoFormats ==
    [res : {"1920x1080", "1280x720"}, codec : {"h264", "hevc"},
     pix_fmt : {"yuv420p", "yuv444p"}]

InputClips == [fmt : VideoFormats, content : {"valid", "corrupt", "missing"}]

InputPath(k) == File(1, "scene", k - 1, 1)
StdDir == File(1, "std_dir", 0, 0)
StdPath(k) == File(1, "std", k - 1, 0)
ConcatFile == File(1, "concat_list", 0, 0)
OutputPath == File(1, "final", 0, 0)

\* Some clip after the first differs from the first in width, height, codec
\* or pixel format.
NeedStandardization(video_info_list) ==
    /\ Len(video_info_list) > 1
    /\ \E k \in 2..Len(video_info_list) : video_info_list[k] /= video_info_list[1]

\* The format of the file standardize_video_format writes: scaled to the
\* target size, encoded with libx264, in the target pixel format.
StandardizeVideoFormat(fmt, target) ==
    [res |-> target.res, codec |-> "h264", pix_fmt |-> target.pix_fmt]

\* A faulty cleanup: the standardized files are removed, the directory that
\* held them is not.
RemoveStandardizedFilesOnly(d) ==
    RemoveFiles(d, {f \in DOMAIN d : f[2] = "std"})

\* shutil.rmtree(temp_dir) and the removal of the standardized files.
RemoveStandardized(d) ==
    RemoveFiles(d, {StdDir} \cup {f \in DOMAIN d : f[2] = "std"})

\* The finally block of concatenate_videos: temp_files holds temp_dir and
\* concat_file.
ConcatFinally(d) == RemoveFiles(RemoveStandardized(d), {ConcatFile})

\* The call starts: the checks of the inputs, the probe of every input and
\* the comparison of the formats, up to the first run of ffmpeg.
ConcatBegin ==
    /\ concat.pc = "idle"
    /\ \E n \in 0..MaxClips : \E inputs \in [1..n -> InputClips] :
          LET d == [f \in {InputPath(k) : k \in {j \in 1..n : inputs[j].content /= "missing"}}
                      |-> inputs[f[3] + 1].content]
              infos == [k \in 1..n |-> inputs[k].fmt]
              need == NeedStandardization(infos)
              c == [NoConcat EXCEPT !.inputs = inputs]
          IN IF n = 0
             THEN /\ concat' = [c EXCEPT !.pc = "raised", !.error = "ValueError"]
                  /\ disk' = d
             ELSE IF \E k \in 1..n : ~Exists(d, InputPath(k))
             THEN /\ concat' = [c EXCEPT !.pc = "raised", !.error = "FileNotFoundError"]
                  /\ disk' = d
             ELSE IF \E k \in 1..n : ~ValidateVideoFile(d, InputPath(k))
             THEN /\ concat' = [c EXCEPT !.pc = "raised", !.error = "ValueError"]
                  /\ disk' = d
             ELSE IF need
             THEN /\ concat' = [c EXCEPT !.pc = "standardize", !.k = 1,
                                         !.need_standardization = TRUE]
                  /\ disk' = WriteFile(d, StdDir, "dir")
             ELSE /\ concat' = [c EXCEPT !.pc = "join", !.listed = infos]
                  /\ disk' = WriteFile(d, ConcatFile, "text")
    /\ UNCHANGED <<job, world, stage, scenes, task, scene_errors, scene_paths,
                   used_videos, temp_files, final_path, result, selected, searched,
                   dedup_log, overtaken, fetch, raw_clip, captions,
                   task_queue, request, worker>>

\* standardize_video_format of input k returns or raises; after the last
\* input the concat list is written.
StandardizeReturn ==
    /\ concat.pc = "standardize"
    /\ \E outcome \in {"ok", "ffmpeg_error", "invalid"} :
          LET k == concat.k
              target == concat.inputs[1].fmt
              std == StandardizeVideoFormat(concat.inputs[k].fmt, target)
              paths == Append(concat.standardized_paths, std)
          IN IF outcome = "ok"
             THEN IF k < Len(concat.inputs)
                  THEN /\ concat' = [concat EXCEPT !.k = k + 1, !.standardized_paths = paths]
                       /\ disk' = WriteFile(disk, StdPath(k), "valid")
                  ELSE /\ concat' = [concat EXCEPT !.pc = "join",
                                                   !.standardized_paths = paths,
                                                   !.listed = paths]
                       /\ disk' = WriteFile(WriteFile(disk, StdPath(k), "valid"),
                                            ConcatFile, "text")
             ELSE /\ concat' = [concat EXCEPT !.pc = "raised", !.error = "RuntimeError"]
                  /\ disk' = RemoveStandardized(disk)
    /\ UNCHANGED <<job, world, stage, scenes, task, scene_errors, scene_paths,
                   used_videos, temp_files, final_path, result, selected, searched,
                   dedup_log, overtaken, fetch, raw_clip, captions,
                   task_queue, request, worker>>

\* The checks of the joined file: it exists, is not empty and validates.
OutputAccepted(d) ==
    /\ Exists(d, OutputPath)
    /\ d[OutputPath] /= "empty"
    /\ ValidateVideoFile(d, OutputPath)

\* The joining run of ffmpeg is over: it failed, or left no file, an empty
\* file, a file that does not decode, or a video, which may be shorter than
\* its inputs together.
JoinReturn ==
    /\ concat.pc = "join"
    /\ \E outcome \in {"ffmpeg_error", "missing", "empty", "corrupt", "valid"},
          truncated \in BOOLEAN :
          LET d1 == IF outcome = "valid" THEN WriteFile(disk, OutputPath, "valid")
                    ELSE IF outcome \in {"empty", "corrupt"}
                    THEN WriteFile(disk, OutputPath, outcome)
                    ELSE disk
              accepted == outcome /= "ffmpeg_error" /\ OutputAccepted(d1)
          IN /\ truncated => outcome = "valid"
             /\ IF accepted
                THEN /\ concat' = [concat EXCEPT !.pc = "returned", !.truncated = truncated]
                     /\ disk' = ConcatFinally(d1)
                ELSE /\ concat' = [concat EXCEPT !.pc = "raised", !.error = "RuntimeError"]
                     /\ disk' = ConcatFinally(RemoveFiles(d1, {OutputPath}))
    /\ UNCHANGED <<job, world, stage, scenes, task, scene_errors, scene_paths,
                   used_videos, temp_files, final_path, result, selected, searched,
                   dedup_log, overtaken, fetch, raw_clip, captions,
                   task_queue, request, worker>>

InitConcat ==
    InitWith(IdleJobs, [pexels |-> EmptyCatalogue, pixabay |-> EmptyCatalogue,
                        local |-> (DefaultPlaceholder :> "valid")])

NextConcat ==
    \/ ConcatBegin
    \/ StandardizeReturn
    \/ JoinReturn

SpecConcat == InitConcat /\ [][NextConcat]_vars

(***************************************************************************)
(* generate_srt_from_script(script, total_duration).  Durations are whole  *)
(* milliseconds.  A point in time is kept exactly, as the numerator of a   *)
(* fraction of milliseconds whose denominator is the number of scenes, and *)
(* as the text format_srt_time makes of it, which drops what is below one  *)
(* millisecond.  The rounding of the floating point numbers is left out.   *)
(***************************************************************************)
\* format_srt_time of a time of ms whole milliseconds.
FormatSrtTime(ms) ==
    [hours |-> ms \div 3600000,
     minutes |-> (ms % 3600000) \div 60000,
     secs |-> (ms % 60000) \div 1000,
     ms |-> ms % 1000]

\* scene_text.replace("\n", " ").strip()
CaptionText(scene_text) ==
    Strip([k \in 1..Len(scene_text) |-> IF scene_text[k] = NL THEN SP ELSE scene_text[k]])

\* A faulty timing: the duration of a scene is cut to whole milliseconds
\* before it is multiplied.
GenerateSrtWholeShares(script, total_duration) ==
    LET scene_texts == ExtractScenes(script)
        n == Len(scene_texts)
        share == (total_duration \div n) * n
    IN [i \in 1..n |->
          [index |-> i,
           start_num |-> (i - 1) * share,
           end_num |-> Min(i * share, n * total_duration),
           start |-> FormatSrtTime(((i - 1) * share) \div n),
           end |-> FormatSrtTime(Min(i * share, n * total_duration) \div n),
           text |-> CaptionText(scene_texts[i])]]

\* The entries of the SRT text: scene_duration = total_duration / len(scenes),
\* entry i runs from (i - 1) * scene_duration to
\* min(i * scene_duration, total_duration).
GenerateSrtFromScript(script, total_duration) ==
    LET scene_texts == ExtractScenes(script)
        n == Len(scene_texts)
    IN [i \in 1..n |->
          [index |-> i,
           start_num |-> (i - 1) * total_duration,
           end_num |-> Min(i * total_duration, n * total_duration),
           start |-> FormatSrtTime(((i - 1) * total_duration) \div n),
           end |-> FormatSrtTime(Min(i * total_duration, n * total_duration) \div n),
           text |-> CaptionText(scene_texts[i])]]

\* The scripts of 1..MaxScenes paragraphs of one line or of two lines.
SrtScripts ==
    {ScriptOf([k \in 1..n |-> p]) : n \in 1..MaxScenes,
                                    p \in {<<"a">>, <<"a", NL, "a">>}}

\* combined_duration: some short durations, and two long ones.
Durations == (1..MaxDuration) \cup {61001, 3725500}

\* The transcription has raised for a run with this script and this video.
TranscriptionRaises ==
    /\ captions.pc = "idle"
    /\ \E script \in SrtScripts, total_duration \in Durations :
          captions' = [NoCaptions EXCEPT !.pc = "fallback", !.script = script,
                                         !.total_duration = total_duration]
    /\ UNCHANGED <<pipeline_vars, fetch, raw_clip, concat,
                   task_queue, request, worker>>

GenerateSrt ==
    /\ captions.pc = "fallback"
    /\ captions' = [captions EXCEPT
                      !.pc = "generated",
                      !.entries = GenerateSrtFromScript(captions.script,
                                                        captions.total_duration)]
    /\ UNCHANGED <<pipeline_vars, fetch, raw_clip, concat,
                   task_queue, request, worker>>

InitSrt ==
    InitWith(IdleJobs, [pexels |-> EmptyCatalogue, pixabay |-> EmptyCatalogue,
                        local |-> (DefaultPlaceholder :> "valid")])

NextSrt ==
    \/ TranscriptionRaises
    \/ GenerateSrt

SpecSrt == InitSrt /\ [][NextSrt]_vars

(***************************************************************************)
(* app.py: the task queue.  Flask serves every request in a thread of its  *)
(* own, so several calls of the wrapper of queue_task run at once, next to *)
(* the one daemon thread that runs process_queue.  Queue.qsize, Queue.put  *)
(* and Queue.get are atomic one by one.  A request thread serves one       *)
(* request, and the job id is the number of the thread.  send_webhook is   *)
(* taken to return.                                                        *)
(***************************************************************************)
\* What data holds for webhook_url: no such key, an empty string, a URL.
WebhookUrls == {"absent", "", "url"}

\* What the route function does when it is called: it returns a 3-tuple with
\* the code 200 or another code, a tuple of two elements, something that is
\* not a tuple, or it raises.
TaskFuncs == {"tuple3_200", "tuple3_500", "tuple2", "not_tuple", "raises"}

\* process_queue builds response_data: for a tuple of one or two elements
\* the entry "response" reads response[2], which raises IndexError.
ResponseDataRaises(response) == response = "tuple2"

\* The wrapper up to the branch: the API key, the job id, and the direct run
\* of a request without webhook_url.  Threads take their requests in the
\* order of their numbers.
RequestArrives(t) ==
    /\ request[t].pc = "idle"
    /\ t > 1 => request[t - 1].pc /= "idle"
    /\ \E authorised \in BOOLEAN, webhook_url \in WebhookUrls, task_func \in TaskFuncs :
          request' = [request EXCEPT ![t] =
              IF ~authorised
              THEN [@ EXCEPT !.pc = "answered", !.code = 401]
              ELSE IF webhook_url = "absent"
              THEN [@ EXCEPT !.pc = "answered",
                             !.code = IF task_func = "tuple3_200" THEN 200 ELSE 500,
                             !.job_status = IF task_func \in {"tuple3_200", "tuple3_500"}
                                            THEN "done" ELSE "running"]
              ELSE [@ EXCEPT !.pc = "check", !.webhook_url = webhook_url,
                             !.task_func = task_func]]
    /\ UNCHANGED <<pipeline_vars, fetch, raw_clip, concat, captions, task_queue, worker>>

\* if MAX_QUEUE_LENGTH > 0 and task_queue.qsize() >= MAX_QUEUE_LENGTH: 429;
\* otherwise the job is logged as queued.
CheckQueueLength(t) ==
    /\ request[t].pc = "check"
    /\ request' = [request EXCEPT ![t] =
          IF MAX_QUEUE_LENGTH > 0 /\ Len(task_queue) >= MAX_QUEUE_LENGTH
          THEN [@ EXCEPT !.pc = "answered", !.code = 429, !.job_status = "done"]
          ELSE [@ EXCEPT !.pc = "put", !.job_status = "queued"]]
    /\ UNCHANGED <<pipeline_vars, fetch, raw_clip, concat, captions, task_queue, worker>>

\* task_queue.put(...) and the answer 202.
PutTask(t) ==
    /\ request[t].pc = "put"
    /\ task_queue' = Append(task_queue, t)
    /\ request' = [request EXCEPT ![t] = [@ EXCEPT !.pc = "answered", !.code = 202]]
    /\ UNCHANGED <<pipeline_vars, fetch, raw_clip, concat, captions, worker>>

\* process_queue: task_queue.get() returns, the job is logged as running.
WorkerGet ==
    /\ worker.pc = "get"
    /\ task_queue /= <<>>
    /\ worker' = [pc |-> "run", job |-> Head(task_queue)]
    /\ task_queue' = Tail(task_queue)
    /\ request' = [request EXCEPT ![Head(task_queue)] = [@ EXCEPT !.job_status = "running"]]
    /\ UNCHANGED <<pipeline_vars, fetch, raw_clip, concat, captions>>

\* process_queue from task_func() to task_done(): nothing catches what
\* task_func or the building of response_data raises, so the thread ends.
WorkerRun ==
    /\ worker.pc = "run"
    /\ LET j == worker.job
           response == request[j].task_func
       IN IF response = "raises" \/ ResponseDataRaises(response)
          THEN /\ worker' = [worker EXCEPT !.pc = "dead"]
               /\ UNCHANGED request
          ELSE /\ worker' = [pc |-> "get", job |-> 0]
               /\ request' = [request EXCEPT ![j] =
                     [@ EXCEPT !.job_status = "done",
                               !.reported = request[j].webhook_url /= ""]]
    /\ UNCHANGED <<pipeline_vars, fetch, raw_clip, concat, captions, task_queue>>

InitQueue ==
    InitWith(IdleJobs, [pexels |-> EmptyCatalogue, pixabay |-> EmptyCatalogue,
                        local |-> (DefaultPlaceholder :> "valid")])

NextQueue ==
    \/ \E t \in 1..NumRequests : RequestArrives(t)
    \/ \E t \in 1..NumRequests : CheckQueueLength(t)
    \/ \E t \in 1..NumRequests : PutTask(t)
    \/ WorkerGet
    \/ WorkerRun

SpecQueue == InitQueue /\ [][NextQueue]_vars

\* The worker thread and the request threads are scheduled: a step that
\* stays possible is taken.
SpecQueueLive ==
    /\ SpecQueue
    /\ WF_vars(WorkerGet)
    /\ WF_vars(WorkerRun)
    /\ \A t \in 1..NumRequests : WF_vars(CheckQueueLength(t)) /\ WF_vars(PutTask(t))

(***************************************************************************)
(* Properties of the scheduling specification.                             *)
(***************************************************************************)
\* C1: the list of scene clips handed to concatenate_videos is ordered by
\* scene index, for any two rendered scenes i < j the clip of i comes before
\* the clip of j, whatever the order in which the scene tasks and their
\* retries completed and whichever scenes were dropped as failed.
C1_ClipsInSceneOrder ==
    \A r \in Runs :
        LET paths == scene_paths[r]
        IN /\ \A a, b \in DOMAIN paths : a < b => paths[a][3] < paths[b][3]
           /\ \A a \in DOMAIN paths :
                 /\ paths[a][3] \in SceneIndices(r)
                 /\ task[r][paths[a][3]].pc = "ok"
                 /\ task[r][paths[a][3]].path = paths[a]
           /\ stage[r] = "concatenating" =>
                 \A i \in SceneIndices(r) :
                    task[r][i].pc = "ok" => \E a \in DOMAIN paths : paths[a][3] = i

\* C1 witness: three or more clips reach concatenation after a scene finished
\* before a scene of lower index, and a scene needed a retry.
C1_Witness ==
    /\ stage[1] = "concatenating"
    /\ overtaken[1]
    /\ Len(scene_paths[1]) = NumScenes(1)
    /\ NumScenes(1) >= 3
    /\ \E i \in SceneIndices(1) : task[1][i].attempt > 1

\* C2: at every moment the number of scenes inside process_scene is at most
\* the size of the limiter of the run, and that size is at most 3 for every
\* number of scenes N >= 1.
C2_ConcurrencyBound ==
    /\ \A r \in Runs :
          /\ Cardinality(Executing(r)) <= MaxWorkers(NumScenes(r))
          /\ MaxWorkers(NumScenes(r)) <= 3
    /\ \A n \in 1..MaxSceneCount : MaxWorkers(n) <= 3

\* C2 witness: the limiter binds: three scenes are inside process_scene, one
\* of them in a retry, and a fourth waits for the semaphore.
C2_Witness ==
    /\ Cardinality(Executing(1)) = 3
    /\ MaxWorkers(NumScenes(1)) = 3
    /\ \E i \in SceneIndices(1) : task[1][i].pc = "sem"
    /\ \E i \in Executing(1) : task[1][i].attempt > 1

\* C3: with N scenes of which F failed permanently, the run fails with the
\* too-many-failures error if and only if F > N/2; when F <= N/2 it goes on
\* to concatenation with exactly the N - F rendered scenes in their original
\* relative order.
C3_FailurePolicy ==
    \A r \in Runs :
        (stage[r] \notin {"idle", "rendering"} /\ NumScenes(r) >= 1) =>
            LET N == NumScenes(r)
                failed == {i \in SceneIndices(r) : task[r][i].pc = "failed"}
                F == Cardinality(failed)
                rendered == SelectSeq([k \in 1..N |-> k - 1], LAMBDA i : i \notin failed)
            IN /\ (result[r] = Raised("Too many scene processing failures")) <=> (2 * F > N)
               /\ 2 * F > N => stage[r] = "failed" /\ scene_paths[r] = <<>>
               /\ 2 * F <= N =>
                     /\ Len(scene_paths[r]) = N - F
                     /\ scene_paths[r] = [k \in 1..(N - F) |-> task[r][rendered[k]].path]
                     /\ \A k \in 1..(N - F) : task[r][rendered[k]].pc = "ok"

\* C3 witness: exactly half of the scenes failed, 1 of 2, and the run is
\* about to concatenate the other one.
C3_Witness ==
    /\ stage[1] = "concatenating"
    /\ NumScenes(1) = 2
    /\ task[1][0].pc = "failed"
    /\ task[1][1].pc = "ok"
    /\ scene_paths[1] = <<task[1][1].path>>

\* C6: when a run fails fatally at any stage, no file the run created is left
\* on disk when process_scripted_video_v1 raises.
C6_NoFilesAfterFailure ==
    \A r \in Runs : stage[r] = "failed" => FilesOf(disk, r) = {}

(***************************************************************************)
(* Properties of the decomposition specification.  The paragraphs of a     *)
(* script are defined here on its lines, independently of extract_scenes.  *)
(***************************************************************************)
\* The lines of a text: the pieces between its newline characters.
RECURSIVE LinesOf(_, _)
LinesOf(s, cur) ==
    IF s = <<>> THEN <<cur>>
    ELSE IF Head(s) = NL THEN <<cur>> \o LinesOf(Tail(s), <<>>)
         ELSE LinesOf(Tail(s), Append(cur, Head(s)))

\* A line that separates paragraphs: an empty line, and when blank_separates
\* also a line that holds only spaces and tabs.
SeparatorLine(line, blank_separates) ==
    \/ line = <<>>
    \/ blank_separates /\ \A k \in 1..Len(line) : line[k] \in {SP, TAB}

\* The maximal blocks of consecutive lines between separator lines.
RECURSIVE BlocksOf(_, _, _)
BlocksOf(lines, blank_separates, cur) ==
    IF lines = <<>> THEN (IF cur = <<>> THEN <<>> ELSE <<cur>>)
    ELSE IF SeparatorLine(Head(lines), blank_separates)
         THEN (IF cur = <<>> THEN <<>> ELSE <<cur>>)
              \o BlocksOf(Tail(lines), blank_separates, <<>>)
         ELSE BlocksOf(Tail(lines), blank_separates, Append(cur, Head(lines)))

\* The trimmed text of each non-empty paragraph of a script, in document order.
ParagraphsOf(script, blank_separates) ==
    LET blocks == BlocksOf(LinesOf(script, <<>>), blank_separates, <<>>)
        texts == [k \in 1..Len(blocks) |-> Strip(Join(<<NL>>, blocks[k]))]
    IN SelectSeq(texts, NonEmpty)

\* C10 as stated: for every script of N >= 1 non-empty paragraphs separated
\* by blank lines, blank lines that contain spaces or tabs included,
\* extract_scenes returns exactly N scenes, scene k being the trimmed text of
\* the k-th paragraph.
C10_BlankLinesSeparate ==
    stage[1] /= "idle" =>
        LET paragraphs == ParagraphsOf(job[1].script, TRUE)
        IN Len(paragraphs) >= 1 => stage[1] = "rendering" /\ scenes[1] = paragraphs

\* C10 amended: for every script of N >= 1 non-empty paragraphs separated by
\* empty lines, that is by two or more consecutive newline characters with
\* nothing between them, extract_scenes returns exactly N scenes, scene k
\* being the trimmed text of the k-th paragraph; a line that holds only
\* spaces or tabs separates nothing and stays inside its paragraph.
C10_EmptyLinesSeparate ==
    stage[1] /= "idle" =>
        LET paragraphs == ParagraphsOf(job[1].script, FALSE)
        IN /\ Len(paragraphs) >= 1 =>
                 /\ stage[1] = "rendering"
                 /\ scenes[1] = paragraphs
                 /\ DOMAIN task[1] = 0..(Len(paragraphs) - 1)
           /\ Len(paragraphs) = 0 => stage[1] = "failed"

\* C10 witness: two paragraphs separated by two empty lines, with a leading
\* space to trim, were split into two scenes.
C10_Witness ==
    /\ job[1].script = <<"a", NL, NL, NL, SP, "a">>
    /\ stage[1] = "rendering"
    /\ scenes[1] = <<<<"a">>, <<"a">>>>

(***************************************************************************)
(* Properties of the pipeline specification.                               *)
(***************************************************************************)
\* C4: within one run the stock search of process_scene returns a URL it
\* returned before only when every candidate of both providers for every
\* keyword variant of the scene, the primary query and all alternative
\* queries, is already in used_videos.
C4_ReuseOnlyWhenExhausted ==
    \A r \in Runs : ~dedup_log[r].avoidable

\* C7: when a run succeeds, the only file the run created that still exists
\* is the returned final artifact.
C7_OnlyFinalArtifactRemains ==
    \A r \in Runs : stage[r] = "done" => FilesOf(disk, r) = {result[r].path}

\* C8: with add_captions true no failure of a captioning step makes the run
\* fail: the final verification passes and the run returns, and whenever no
\* valid captioned video was produced the path it returns is the valid
\* uncaptioned concatenated video.
C8_CaptionFailureNotFatal ==
    \A r \in Runs :
        job[r].add_captions =>
            /\ result[r] /= Raised("Final video file is invalid")
            /\ stage[r] \in {"verifying", "done"} =>
                  /\ ValidateVideoFile(disk, final_path[r])
                  /\ final_path[r] \in {File(r, "final", 0, 0), File(r, "captioned", 0, 0)}
                  /\ ~ValidateVideoFile(disk, File(r, "captioned", 0, 0)) =>
                        final_path[r] = File(r, "final", 0, 0)
            /\ stage[r] = "done" => result[r] = Returned(final_path[r])

\* C8 witness: the caption service left a captioned file that does not
\* validate, and the run returned the uncaptioned concatenated video.
C8_Witness ==
    /\ job[1].add_captions
    /\ stage[1] = "done"
    /\ Exists(disk, File(1, "captioned", 0, 0))
    /\ disk[File(1, "captioned", 0, 0)] = "corrupt"
    /\ result[1] = Returned(File(1, "final", 0, 0))

\* C9: a scene whose index has a custom media URL is resolved to exactly that
\* URL, sends no query to a stock provider and leaves used_videos alone; every
\* other scene of the run resolves a clip only after the stock search, and a
\* stock URL it uses is in used_videos.
C9_CustomMediaBypassesSearch ==
    \A r \in Runs :
        LET custom_urls == CustomUrls(job[r].custom_media, NumScenes(r))
        IN \A i \in SceneIndices(r) :
              IF i \in DOMAIN custom_urls /\ custom_urls[i] /= ""
              THEN /\ task[r][i].pc /= "search"
                   /\ i \notin searched[r]
                   /\ task[r][i].url \in {None, custom_urls[i]}
                   /\ task[r][i].src \in {None, "custom", "default_placeholder_fallback"}
                   /\ task[r][i].pc \in {"download", "dlsleep", "ok"} =>
                         task[r][i].url = custom_urls[i]
                   /\ custom_urls[i] \notin used_videos
              ELSE /\ task[r][i].url /= None => i \in searched[r]
                   /\ task[r][i].src = "stock" => task[r][i].url \in used_videos

\* C9 witness: scene 0 was rendered from its custom URL without a search and
\* scene 1 from a stock URL found by the search.
C9_Witness ==
    /\ stage[1] = "concatenating"
    /\ 0 \in DOMAIN CustomUrls(job[1].custom_media, NumScenes(1))
    /\ task[1][0].pc = "ok"
    /\ task[1][0].url = CustomUrl
    /\ task[1][0].src = "custom"
    /\ searched[1] = {1}
    /\ task[1][1].pc = "ok"
    /\ task[1][1].src = "stock"
    /\ task[1][1].url \in used_videos

(***************************************************************************)
(* Property of the overlap specification.                                  *)
(***************************************************************************)
\* C5: the set of URLs the resolver of a run treats as used holds exactly the
\* stock URLs the same run selected before, also when runs overlap: a run
\* that starts neither empties nor pollutes the set of a run in flight.
C5_UsedSetPrivateToRun ==
    \A r \in Runs : stage[r] = "rendering" => used_videos = selected[r]

(***************************************************************************)
(* Validation failures.                                                    *)
(***************************************************************************)
\* C11: for a script that is empty or holds only whitespace and paragraph
\* separators the run fails with the empty-script error before any scene is
\* rendered, any provider is queried or any narration is synthesized.
C11_BlankScriptFailsFirst ==
    \A r \in Runs :
        (job[r].active /\ \A k \in DOMAIN job[r].script : job[r].script[k] \in Whitespace) =>
            /\ stage[r] \in {"idle", "failed"}
            /\ stage[r] = "failed" => result[r] = Raised("Script is empty")
            /\ task[r] = <<>>
            /\ searched[r] = {}
            /\ selected[r] = {}
            /\ FilesOf(disk, r) = {}

\* C11 witness: a script of spaces, tabs and a paragraph separator was refused.
C11_Witness ==
    /\ job[1].script = <<SP, NL, NL, TAB>>
    /\ stage[1] = "failed"
    /\ result[1] = Raised("Script is empty")

\* C12: a run whose aspect_ratio is not a supported ratio fails fast with a
\* validation error: no narration is synthesized, no scene attempt is made or
\* retried and nothing is searched or downloaded before the run fails.
C12_UnsupportedRatioFailsFast ==
    \A r \in Runs :
        (job[r].active /\ job[r].aspect_ratio \notin Resolutions) =>
            /\ stage[r] \in {"idle", "failed"}
            /\ \A i \in DOMAIN task[r] : task[r][i].attempt = 0
            /\ FilesOf(disk, r) = {}

\* C13 as stated: a run whose custom_media has an entry with scene_index >=
\* the number of scenes fails with a validation error without rendering any
\* scene.
C13_OutOfRangeIndexFails ==
    \A r \in Runs :
        (/\ job[r].active
         /\ stage[r] /= "idle"
         /\ \E k \in DOMAIN job[r].custom_media :
               job[r].custom_media[k].scene_index >= NumScenes(r)) =>
            /\ stage[r] = "failed"
            /\ \A i \in DOMAIN task[r] : task[r][i].attempt = 0

\* C13 amended: an entry of custom_media whose scene_index is >= the number
\* of scenes is dropped and the run goes on: a task is created for every
\* scene, the entries in range keep their URLs, a scene without an entry in
\* range resolves its clip by the stock search, and the run fails only for
\* the reasons a run without that entry fails.
C13_OutOfRangeIndexDropped ==
    \A r \in Runs :
        (/\ job[r].active
         /\ NumScenes(r) >= 1
         /\ \E k \in DOMAIN job[r].custom_media :
               job[r].custom_media[k].scene_index >= NumScenes(r)) =>
            LET custom_urls == CustomUrls(job[r].custom_media, NumScenes(r))
            IN /\ DOMAIN custom_urls =
                     {job[r].custom_media[k].scene_index : k \in DOMAIN job[r].custom_media}
                     \cap SceneIndices(r)
               /\ DOMAIN task[r] = SceneIndices(r)
               /\ \A i \in SceneIndices(r) \ DOMAIN custom_urls :
                     task[r][i].url /= None => i \in searched[r]
               /\ \A i \in DOMAIN custom_urls :
                     task[r][i].url \in {None, custom_urls[i]}
               /\ stage[r] = "failed" =>
                     result[r] \in {Raised("Too many scene processing failures"),
                                    Raised("Failed to combine video scenes")}

\* C13 witness: a run with an entry for scene index 2 of a script of two
\* scenes rendered both scenes and returned a video.
C13_Witness ==
    /\ job[1] = OutOfRangeJob
    /\ stage[1] = "done"
    /\ Len(scene_paths[1]) = 2
    /\ task[1][0].src = "custom"
    /\ task[1][1].src = "stock"

(***************************************************************************)
(* The tiers of the media resolver.                                        *)
(***************************************************************************)
\* C14: the resolver picks the source by tier priority.  A placeholder is
\* chosen only for a scene without custom URL whose stock search went through
\* every keyword set and found no candidate, and only when use_placeholder is
\* set: the placeholder URL of the caller when there is one, otherwise the
\* default placeholder when it exists.  When use_placeholder is not set, or
\* no placeholder exists, such a scene attempt fails instead of going on.
C14_TierPriority ==
    \A r \in Runs :
        LET custom_urls == CustomUrls(job[r].custom_media, NumScenes(r))
        IN \A i \in SceneIndices(r) :
              LET t == task[r][i]
                  has_custom == i \in DOMAIN custom_urls /\ custom_urls[i] /= ""
                  no_candidate ==
                      \A keywords \in GetSceneKeywords(SceneText(r, i)) :
                          Candidates(AllKeywords(SceneText(r, i), keywords)) = {}
                  no_placeholder ==
                      \/ ~job[r].use_placeholder
                      \/ job[r].placeholder_url = None /\ ~IsLocalFile(DefaultPlaceholder)
              IN /\ has_custom => t.src \in {None, "custom", "default_placeholder_fallback"}
                 /\ t.src = "stock" => ~has_custom /\ t.url \in Candidates(t.kws)
                 /\ t.src \in {"custom_placeholder", "default_placeholder"} =>
                       /\ ~has_custom
                       /\ i \in searched[r]
                       /\ t.kwi = Len(t.kws)
                       /\ t.step = 2 * Len(QueriesOf(t.kws[t.kwi]))
                       /\ no_candidate
                       /\ job[r].use_placeholder
                 /\ t.src = "custom_placeholder" =>
                       job[r].placeholder_url /= None /\ t.url = job[r].placeholder_url
                 /\ t.src = "default_placeholder" =>
                       /\ job[r].placeholder_url = None
                       /\ IsLocalFile(DefaultPlaceholder)
                       /\ t.url = DefaultPlaceholder
                 /\ (~has_custom /\ no_placeholder
                        /\ (t.pc \in {"download", "dlsleep", "ok"} \/ t.url /= None)) =>
                       ~no_candidate

\* C14 witness: nothing was found for scene 1, which was rendered from the
\* placeholder URL of the caller, although the default placeholder exists.
C14_Witness ==
    /\ job[1].use_placeholder
    /\ job[1].placeholder_url = PlaceholderUrl
    /\ IsLocalFile(DefaultPlaceholder)
    /\ 1 \in searched[1]
    /\ task[1][1].pc = "ok"
    /\ task[1][1].src = "custom_placeholder"
    /\ task[1][1].url = PlaceholderUrl

(***************************************************************************)
(* Scheduling of the scene tasks.                                          *)
(***************************************************************************)
\* C15: for every number of scenes N >= 1 the limiter of the run has at least
\* one slot, so that no scene count leaves every scene task waiting for the
\* limiter forever.
C15_LimiterHasASlot ==
    \A r \in Runs :
        stage[r] = "rendering" =>
            /\ MaxWorkers(NumScenes(r)) >= 1
            /\ (\A i \in SceneIndices(r) : task[r][i].pc = "sem") =>
                  \E i \in SceneIndices(r) : ENABLED AcquireSem(r, i)

\* C16, in every state: a scene has had at most 3 attempts; a scene in its
\* backoff has failed attempt 1 and sleeps 1.5 s (3 half seconds) or has
\* failed attempt 2 and sleeps 3 s; a scene that failed for good has had 3
\* attempts, exactly one record and no clip, and no other scene has a record.
C16_StateOfRetries ==
    \A r \in Runs : \A i \in SceneIndices(r) :
        LET t == task[r][i]
        IN /\ t.attempt <= 3
           /\ t.pc = "backoff" =>
                 /\ t.attempt \in {1, 2}
                 /\ t.attempt = 1 => t.delay = 3
                 /\ t.attempt = 2 => t.delay = 6
           /\ t.pc = "failed" =>
                 t.attempt = 3 /\ scene_errors[r][i] = 1 /\ t.path = NoFile
           /\ t.pc /= "failed" => scene_errors[r][i] = 0
           /\ t.pc = "ok" => t.path /= NoFile

\* C16, in every step: an attempt of a scene starts only from the wait for
\* the limiter (the first) or from the backoff after a failed attempt, nothing
\* follows a successful attempt or the third failure, and the failure record
\* is added in the step of the third failure.
C16_StepOfRetries ==
    \A r \in Runs : \A i \in DOMAIN task[r] \cap DOMAIN task'[r] :
        LET t == task[r][i]
            u == task'[r][i]
        IN /\ u.attempt /= t.attempt =>
                 /\ u.attempt = t.attempt + 1
                 /\ u.pc = "tts"
                 /\ t.pc \in {"sem", "backoff"}
                 /\ t.pc = "sem" <=> t.attempt = 0
           /\ t.pc \in {"ok", "failed"} => u = t
           /\ (u.pc = "failed" /\ t.pc /= "failed") =>
                 scene_errors'[r][i] = scene_errors[r][i] + 1

\* C16: each scene is attempted at most 3 times; attempt k+1 starts only
\* after attempt k failed and after a backoff that grows with k (1.5 s, then
\* 3 s); no attempt follows a successful one; after the third failure exactly
\* one (index, error) record is added for the scene, which contributes no clip.
C16_RetriesBounded == [](C16_StateOfRetries) /\ [][C16_StepOfRetries]_vars

\* C16 witness: scene 0 failed three times and left one record and no clip,
\* scene 1 was rendered at its second attempt, and the run goes on to
\* concatenate.
C16_Witness ==
    /\ stage[1] = "concatenating"
    /\ NumScenes(1) = 2
    /\ task[1][0].pc = "failed"
    /\ task[1][0].attempt = 3
    /\ scene_errors[1][0] = 1
    /\ task[1][1].pc = "ok"
    /\ task[1][1].attempt = 2
    /\ Len(scene_paths[1]) = 1

\* C17: after the rendering stage of a run with N scenes every scene index
\* has exactly one outcome, one clip path in the result list or exactly one
\* record in the list of failed scenes, never both and never neither, so
\* clips + records = N; and concatenation is never given an empty list.
C17_OneOutcomePerScene ==
    \A r \in Runs :
        LET N == NumScenes(r)
            clip(i) == \E k \in DOMAIN GatherResults(r) :
                          /\ GatherResults(r)[k] /= NoFile
                          /\ GatherResults(r)[k][3] = i
            clips == Cardinality({k \in DOMAIN GatherResults(r) : GatherResults(r)[k] /= NoFile})
        IN /\ (N >= 1 /\ stage[r] /= "idle" /\ Terminal(r)) =>
                 /\ \A i \in SceneIndices(r) :
                       \/ clip(i) /\ scene_errors[r][i] = 0
                       \/ ~clip(i) /\ scene_errors[r][i] = 1
                 /\ clips + ErrorCount(r) = N
           /\ stage[r] \in {"concatenating", "captioning", "verifying", "done"} =>
                 /\ Terminal(r)
                 /\ scene_paths[r] /= <<>>
                 /\ Len(scene_paths[r]) + ErrorCount(r) = N
           /\ final_path[r] /= NoFile => scene_paths[r] /= <<>>

\* C17 witness: of three scenes one failed for good and two were rendered,
\* and the two clips are about to be concatenated.
C17_Witness ==
    /\ stage[1] = "concatenating"
    /\ NumScenes(1) = 3
    /\ ErrorCount(1) = 1
    /\ scene_errors[1][1] = 1
    /\ Len(scene_paths[1]) = 2

\* C18: within one run the test that a stock URL is unused and its insertion
\* into the dedup set are one atomic step with respect to the other scene
\* tasks: whenever a scene task finds a URL unused and takes it as a new
\* stock clip, no scene task of the run took that URL as a new clip before,
\* and the URL is in the set before any other task can run.
C18_StepOfDedup ==
    \A r \in Runs : \A i \in SceneIndices(r) :
        (/\ task[r][i].pc = "search"
         /\ task'[r][i].src = "stock"
         /\ task'[r][i].url /= None
         /\ task'[r][i].url \notin used_videos)
        => /\ task'[r][i].url \notin selected[r]
           /\ task'[r][i].url \in used_videos'
           /\ selected'[r] = selected[r] \cup {task'[r][i].url}

C18_CheckAndInsertAtomic == [][C18_StepOfDedup]_vars

\* C18 witness: two scene tasks of one run sent the same queries while both
\* were in flight; one took stock1 as a new clip, the other found it in the
\* set, so only one of them counts it as new (the other falls back to it as
\* an already used result).
C18_Witness ==
    /\ NumScenes(1) = 2
    /\ task[1][0].pc = "download" /\ task[1][1].pc = "download"
    /\ task[1][0].attempt = 1 /\ task[1][1].attempt = 1
    /\ task[1][0].kws = task[1][1].kws
    /\ task[1][0].src = "stock" /\ task[1][1].src = "stock"
    /\ task[1][0].url = "stock1" /\ task[1][1].url = "stock1"
    /\ task[1][0].step /= task[1][1].step
    /\ selected[1] = {"stock1"}
    /\ used_videos = {"stock1"}

\* C19: once the number of permanently failed scenes of a run exceeds half
\* of all scenes, no scene whose rendering has not begun is started
\* afterwards.  A scene has not begun while its task waits for a slot of the
\* limiter; the formula looks at the tasks that really had to wait: all
\* slots but the one that was just released are held.
C19_StepAfterMajorityFailed ==
    \A r \in Runs : \A i \in SceneIndices(r) :
        (/\ stage[r] = "rendering"
         /\ 2 * ErrorCount(r) > NumScenes(r)
         /\ Cardinality(Holding(r)) = MaxWorkers(NumScenes(r)) - 1
         /\ task[r][i].pc = "sem"
         /\ task[r][i].attempt = 0)
        => task'[r][i].pc = "sem"

C19_NoStartAfterMajorityFailed == [][C19_StepAfterMajorityFailed]_vars

\* C20: the stages of a run occur only in the order decomposing, rendering,
\* concatenating, optional captioning, done (the final verification is the
\* last step before done).  Concatenation starts only after every scene task
\* has a final outcome, a clip or a permanent failure; captioning starts only
\* after concatenation produced a video that validates; no stage is entered
\* again; and after failed no later stage runs.
C20_StageSuccessors ==
    {<<"idle", "rendering">>, <<"idle", "failed">>,
     <<"rendering", "concatenating">>, <<"rendering", "failed">>,
     <<"concatenating", "captioning">>, <<"concatenating", "verifying">>,
     <<"concatenating", "failed">>,
     <<"captioning", "verifying">>,
     <<"verifying", "done">>, <<"verifying", "failed">>}

C20_StateOfStages ==
    \A r \in Runs :
        /\ stage[r] \in {"concatenating", "captioning", "verifying", "done"} =>
              \A i \in SceneIndices(r) :
                 \/ task[r][i].pc = "ok" /\ task[r][i].path /= NoFile
                                         /\ scene_errors[r][i] = 0
                 \/ task[r][i].pc = "failed" /\ scene_errors[r][i] = 1
        /\ stage[r] = "captioning" =>
              /\ job[r].add_captions
              /\ final_path[r] /= NoFile
              /\ Exists(disk, final_path[r])
              /\ ValidateVideoFile(disk, final_path[r])
        /\ stage[r] = "idle" => scenes[r] = <<>> /\ task[r] = <<>>

C20_StepOfStages ==
    \A r \in Runs :
        /\ stage'[r] /= stage[r] => <<stage[r], stage'[r]>> \in C20_StageSuccessors
        /\ stage[r] \in {"failed", "done"} =>
              /\ stage'[r] = stage[r]
              /\ task'[r] = task[r]
              /\ final_path'[r] = final_path[r]
              /\ disk' = disk
        /\ (stage[r] = "concatenating" /\ stage'[r] = "verifying") => ~job[r].add_captions

C20_StagesInOrder == [](C20_StateOfStages) /\ [][C20_StepOfStages]_vars

\* C20 witness: one of two scenes failed for good, the other gave a clip,
\* the clips were concatenated into a video that validates, and captioning
\* has started.
C20_Witness ==
    /\ stage[1] = "captioning"
    /\ NumScenes(1) = 2
    /\ ErrorCount(1) = 1
    /\ \E i \in SceneIndices(1) : task[1][i].pc = "ok"
    /\ ValidateVideoFile(disk, final_path[1])

\* C21: when every search of one fetch_stock_media call returned only
\* candidates that are in the dedup set already, and the original query
\* returned a candidate, the call returns the first candidate of the
\* original query: the scene takes it as its stock clip and neither goes on
\* to another keyword set or a placeholder nor fails for lack of media.
C21_StepOfLastSearch ==
    \A r \in Runs : \A i \in SceneIndices(r) :
        LET t == task[r][i]
            qs == QueriesOf(t.kws[t.kwi])
            found == UNION {Range(Pexels(qs[k])) \cup Range(Pixabay(qs[k])) : k \in 1..Len(qs)}
            original == Pexels(qs[1]) \o Pixabay(qs[1])
        IN (/\ stage[r] = "rendering"
            /\ t.pc = "search"
            /\ t.step = 2 * Len(qs)
            /\ original /= <<>>
            /\ found \subseteq used_videos
            /\ task'[r][i] /= t)
           => /\ task'[r][i].src = "stock"
              /\ task'[r][i].url = original[1]

C21_ReuseInsteadOfNothing == [][C21_StepOfLastSearch]_vars

\* C22: every provider call whose request fails transiently (a network
\* error or a status other than 200) is made again, up to max_retries
\* attempts with a delay that doubles, before its provider counts as failed.
C22_StepOfProviderCall ==
    (/\ fetch.pc = "request"
     /\ fetch' /= fetch
     /\ fetch'.outcome /= "200"
     /\ fetch.attempt < max_retries)
    => /\ fetch'.pc = "request"
       /\ fetch'.call = fetch.call
       /\ fetch'.attempt = fetch.attempt + 1
       /\ fetch'.wait = retry_delay * (2 ^ (fetch.attempt - 1))

C22_TransientFailureRetried == [][C22_StepOfProviderCall]_vars

\* C23: in one scene attempt a media URL that is not a local file is
\* downloaded at most 3 times; the attempt goes on with the downloaded clip
\* as soon as a download leaves a file that is not empty; after 3 failed
\* downloads it goes on with the default placeholder when placeholders are
\* allowed and the asset exists, and fails otherwise; a local path is copied
\* and never downloaded.
C23_StateOfDownloads ==
    \A r \in Runs : \A i \in SceneIndices(r) :
        task[r][i].pc \in {"download", "dlsleep"} =>
            /\ task[r][i].dl \in 1..MaxDownloadAttempts
            /\ task[r][i].url /= None
            /\ ~IsLocalFile(task[r][i].url)

C23_StepOfDownloads ==
    \A r \in Runs : \A i \in SceneIndices(r) :
        LET t == task[r][i]
            u == task'[r][i]
            allowed == job[r].use_placeholder /\ IsLocalFile(DefaultPlaceholder)
            downloading == t.pc \in {"download", "dlsleep"}
            goes_on == u.pc \in {"download", "dlsleep"}
            attempt_failed == /\ u.pc \in {"backoff", "failed"}
                              /\ scene_errors'[r][i] =
                                    scene_errors[r][i] + (IF u.pc = "failed" THEN 1 ELSE 0)
        IN /\ (downloading /\ goes_on /\ u /= t) =>
                 /\ u.attempt = t.attempt /\ u.url = t.url /\ u.src = t.src
                 /\ u.dl <= MaxDownloadAttempts
                 /\ IF t.pc = "dlsleep"
                    THEN u.pc = "download" /\ u.dl = t.dl + 1
                    ELSE \/ u.pc = "dlsleep" /\ u.dl = t.dl
                         \/ u.pc = "download" /\ u.dl = t.dl + 1
           /\ (downloading /\ u /= t /\ u.src = "default_placeholder_fallback") =>
                 /\ t.dl = MaxDownloadAttempts
                 /\ allowed
           /\ (t.pc = "dlsleep" /\ t.dl = MaxDownloadAttempts /\ u /= t) =>
                 IF allowed THEN u.src = "default_placeholder_fallback"
                 ELSE attempt_failed
           /\ (downloading /\ u.pc = "ok" /\ u.src = t.src) => t.pc = "download"
           /\ (~downloading /\ goes_on) => (u.dl = 1 /\ u.pc = "download")

C23_DownloadsBounded == [](C23_StateOfDownloads) /\ [][C23_StepOfDownloads]_vars

\* C23 witness: the third download of a scene attempt has failed and the
\* attempt went on with the default placeholder and gave a clip.
C23_Witness ==
    \E i \in SceneIndices(1) :
        /\ task[1][i].pc = "ok"
        /\ task[1][i].dl = MaxDownloadAttempts
        /\ task[1][i].src = "default_placeholder_fallback"
        /\ task[1][i].url /= DefaultPlaceholder
        /\ job[1].use_placeholder

\* C24: when the acquired raw clip fails validation it is replaced by the
\* default placeholder exactly once if placeholders are allowed, the default
\* asset exists and the clip was not the default placeholder already; the
\* attempt fails if the placeholder is not allowed, is missing, was in use
\* already or fails validation itself; a raw clip that does not validate
\* never goes on to cropping.
C24_ValidationFallback ==
    raw_clip.pc = "validated" =>
        LET allowed == /\ job[1].use_placeholder
                       /\ IsLocalFile(DefaultPlaceholder)
                       /\ raw_clip.src \notin {"default_placeholder",
                                               "default_placeholder_fallback"}
        IN /\ raw_clip.raw = "valid" =>
                 raw_clip.replaced = 0 /\ raw_clip.ok /\ raw_clip.cropped = "valid"
           /\ (raw_clip.raw /= "valid" /\ allowed) =>
                 /\ raw_clip.replaced = 1
                 /\ disk[RawVideoPath] = world.local[DefaultPlaceholder]
                 /\ raw_clip.ok <=> world.local[DefaultPlaceholder] = "valid"
           /\ (raw_clip.raw /= "valid" /\ ~allowed) =>
                 raw_clip.replaced = 0 /\ ~raw_clip.ok
           /\ raw_clip.ok <=> raw_clip.cropped = "valid"
           /\ raw_clip.cropped \in {"none", "valid"}

\* C24 witness: a stock clip that does not decode was replaced by the
\* default placeholder, which validates, and goes on to cropping.
C24_Witness ==
    /\ raw_clip.pc = "validated"
    /\ raw_clip.src = "stock"
    /\ raw_clip.raw = "corrupt"
    /\ raw_clip.replaced = 1
    /\ raw_clip.cropped = "valid"

\* C25: concatenate_videos standardizes all of its inputs or none.  If two
\* inputs differ in resolution, codec or pixel format, every input, the
\* first included, is brought to the resolution, codec and pixel format of
\* the first input before the join; if all inputs agree, the originals are
\* joined.
C25_AllOrNoneStandardized ==
    concat.pc = "join" =>
        LET n == Len(concat.inputs)
            differ == \E j, k \in 1..n : concat.inputs[j].fmt /= concat.inputs[k].fmt
        IN /\ Len(concat.listed) = n
           /\ differ => /\ \A k \in 1..n : concat.listed[k] = concat.inputs[1].fmt
                        /\ \A k \in 1..n : Exists(disk, StdPath(k))
           /\ ~differ => /\ \A k \in 1..n : concat.listed[k] = concat.inputs[k].fmt
                         /\ \A k \in 1..n : ~Exists(disk, StdPath(k))

\* C26: after concatenate_videos has returned or raised, on every path, no
\* standardization temporary (the std directory and its files) and no
\* concat list is left, and after a raise no output file is left.
C26_NoTemporariesLeft ==
    concat.pc \in {"returned", "raised"} =>
        /\ ~Exists(disk, StdDir)
        /\ \A k \in 1..MaxClips + 1 : ~Exists(disk, StdPath(k))
        /\ ~Exists(disk, ConcatFile)
        /\ concat.pc = "raised" => ~Exists(disk, OutputPath)
        /\ concat.pc = "returned" => Exists(disk, OutputPath)
        /\ \A k \in 1..Len(concat.inputs) :
              Exists(disk, InputPath(k)) <=> concat.inputs[k].content /= "missing"

\* C26 witness: the standardization of the second input failed after the
\* first input had been standardized.
C26_Witness ==
    /\ concat.pc = "raised"
    /\ concat.need_standardization
    /\ concat.k = 2
    /\ Len(concat.standardized_paths) = 1
    /\ concat.listed = <<>>

\* C27: concatenate_videos returns only if the joined file is not empty,
\* decodes, and is as long as its inputs together (within the tolerance);
\* when one of the three does not hold it raises.
C27_OutputChecked ==
    concat.pc = "returned" =>
        /\ Exists(disk, OutputPath)
        /\ disk[OutputPath] /= "empty"
        /\ ValidateVideoFile(disk, OutputPath)
        /\ ~concat.truncated

\* The whole milliseconds of a formatted time.
C28_Millis(t) == t.hours * 3600000 + t.minutes * 60000 + t.secs * 1000 + t.ms

\* C28: the fallback caption track has exactly one entry per scene of the
\* decomposed script, in script order; with N scenes and the duration D,
\* entry i starts at (i-1)*D/N and ends at min(i*D/N, D): the entries are
\* contiguous, do not overlap, are of equal length and do not go past the
\* end of the video.
C28_EvenCaptionTrack ==
    captions.pc = "generated" =>
        LET scene_texts == ExtractScenes(captions.script)
            N == Len(scene_texts)
            D == captions.total_duration
            e == captions.entries
        IN /\ Len(e) = N
           /\ \A i \in 1..N :
                 /\ e[i].index = i
                 /\ e[i].text = CaptionText(scene_texts[i])
                 /\ e[i].start_num = (i - 1) * D
                 /\ e[i].end_num = Min(i * D, N * D)
                 /\ e[i].end_num - e[i].start_num = D
                 /\ e[i].start_num < e[i].end_num
                 /\ e[i].end_num <= N * D
                 /\ C28_Millis(e[i].start) = e[i].start_num \div N
                 /\ C28_Millis(e[i].end) = e[i].end_num \div N
                 /\ C28_Millis(e[i].end) <= D
                 /\ e[i].start.minutes < 60 /\ e[i].start.secs < 60 /\ e[i].start.ms < 1000
           /\ \A i \in 1..(N - 1) :
                 /\ e[i].end_num = e[i + 1].start_num
                 /\ e[i].end = e[i + 1].start
           /\ N >= 1 => (e[1].start_num = 0 /\ C28_Millis(e[N].end) = D)

\* C28 witness: three scenes share a video of 10 milliseconds, which three
\* does not divide.
C28_Witness ==
    /\ captions.pc = "generated"
    /\ Len(captions.entries) = 3
    /\ captions.total_duration = 10
    /\ captions.entries[2].start.ms = 3
    /\ captions.entries[3].start.ms = 6
    /\ captions.entries[3].end.ms = 10

\* C29: every job that was accepted into the task queue (answered with 202)
\* is eventually taken by the worker, run, marked done and, when it has a
\* webhook_url, reported, whatever the jobs before it did.  Stated here for
\* the jobs whose own task function returns a 3-tuple.
C29_AcceptedJobsGetDone ==
    \A j \in 1..NumRequests :
        (request[j].code = 202 /\ request[j].task_func \in {"tuple3_200", "tuple3_500"})
            ~> (/\ request[j].job_status = "done"
                /\ request[j].webhook_url = "url" => request[j].reported)

\* C30: when MAX_QUEUE_LENGTH > 0, the number of jobs waiting in the task
\* queue never exceeds MAX_QUEUE_LENGTH; a request answered 429 is not in the
\* queue and is not run, and a job in the queue was answered 202 or is about
\* to be.
C30_QueueWithinLimit ==
    MAX_QUEUE_LENGTH > 0 =>
        /\ Len(task_queue) <= MAX_QUEUE_LENGTH
        /\ \A t \in 1..NumRequests :
              request[t].code = 429 =>
                  /\ \A k \in 1..Len(task_queue) : task_queue[k] /= t
                  /\ worker.job /= t
                  /\ ~request[t].reported

=============================================================================
